---- MODULE Spec2Model ----
(***************************************************************************)
(* State-machine model of the applicant processor: the Orchestrator        *)
(* (ApplicantProcessor in src/main.js, latest revision), the message       *)
(* ledger and applicant table (StorageManager), the spreadsheet sink       *)
(* (SheetsService), the Drive backup (DriveService) and the candidate      *)
(* duplicate lookup with its retry wrapper (SupabaseService).              *)
(*                                                                         *)
(* Text values are sequences of atoms (strings); the JavaScript null is    *)
(* the value Null.  A text that is scanned for e-mail addresses is         *)
(* abstracted to the sequence of address occurrences it contains, in       *)
(* document order, each tagged with the kind of markup around it.          *)
(***************************************************************************)
EXTENDS Integers, Sequences, FiniteSets, TLC

\* ------------------------------------------------------------------ bounds
NumMsgs == 2
MaxHits == 2
MaxDigits == 4
MaxFaults == 2
MaxOccs == 2

\* ------------------------------------------------------- program constants
MAX_EMAIL_AGE_DAYS == 30
DefaultMaxRetries == 3

\* ------------------------------------------------------------ text values
Null == <<"NULL">>

Truthy(v) == v # Null /\ v # <<>>

OrElse(a, b) == IF Truthy(a) THEN a ELSE b

IsSpace(a) == a = " "

RECURSIVE TrimLeft(_)
TrimLeft(s) == IF s # <<>> /\ IsSpace(Head(s)) THEN TrimLeft(Tail(s)) ELSE s

RECURSIVE TrimRight(_)
TrimRight(s) ==
  IF s # <<>> /\ IsSpace(s[Len(s)]) THEN TrimRight(SubSeq(s, 1, Len(s) - 1)) ELSE s

Trim(s) == TrimRight(TrimLeft(s))

LowerAtom(a) ==
  CASE a = "Ann" -> "ann" [] a = "GMAIL" -> "gmail"
    [] a = "New" -> "new" [] a = "Application" -> "application"
    [] a = "Premium" -> "premium" [] a = "Job" -> "job"
    [] a = "Easy" -> "easy" [] a = "Apply" -> "apply"
    [] a = "Marketing" -> "marketing" [] a = "Manager" -> "manager"
    [] a = "Senior" -> "senior" [] a = "Developer" -> "developer"
    [] a = "Strategy" -> "strategy" [] a = "Brand" -> "brand"
    [] a = "Growth" -> "growth" [] a = "Mumbai" -> "mumbai"
    [] a = "India" -> "india" [] a = "Pune" -> "pune"
    [] a = "Lee" -> "lee" [] a = "Data" -> "data" [] a = "Engineer" -> "engineer"
    [] a = "S" -> "s" [] a = "X" -> "x"
    [] OTHER -> a

ToLowerCase(s) == [k \in 1..Len(s) |-> LowerAtom(s[k])]

\* ---------------------------------------------------------------- e-mails
AnnMail == <<"Ann", "@", "gmail", ".", "com">>
BobMail == <<"bob", "@", "site", ".", "org">>
GptMail == <<"cv", "@", "mail", ".", "net">>
BotMail == <<"noreply", "@", "linkedin", ".", "com">>

ExcludedLocals == {"noreply", "no-reply", "donotreply", "dummy"}
ExcludedDomains == {"linkedin", "example", "test"}

\* emailRegex: local "@" domain "." tld, then the exclude patterns
isValidEmail(e) ==
  /\ e # Null
  /\ Len(e) = 5
  /\ e[2] = "@"
  /\ e[4] = "."
  /\ e[1] \notin {"@", ".", " "} /\ e[3] \notin {"@", ".", " "} /\ e[5] \notin {"@", ".", " "}
  /\ e[1] \notin ExcludedLocals
  /\ ~(e[3] \in ExcludedDomains /\ e[5] = "com")

\* scan of one source: the patterns in list order, each over the source's
\* occurrences in document order; the plain pattern matches every address
Patterns == <<"mailto", "plain", "context">>

PatternMatches(pat, occ) == pat = "plain" \/ occ.kind = pat

RECURSIVE FirstValid(_, _)
FirstValid(pat, occs) ==
  IF occs = <<>> THEN Null
  ELSE IF PatternMatches(pat, Head(occs)) /\ isValidEmail(Head(occs).addr)
       THEN Head(occs).addr
       ELSE FirstValid(pat, Tail(occs))

RECURSIVE ScanSource(_, _)
ScanSource(pats, occs) ==
  IF pats = <<>> THEN Null
  ELSE LET hit == FirstValid(Head(pats), occs)
       IN IF hit # Null THEN hit ELSE ScanSource(Tail(pats), occs)

RECURSIVE ScanSources(_)
ScanSources(sources) ==
  IF sources = <<>> THEN Null
  ELSE LET hit == ScanSource(Patterns, Head(sources))
       IN IF hit # Null THEN hit ELSE ScanSources(Tail(sources))

\* a text is null, or a record of its length and its address occurrences
NoText == [isNull |-> TRUE, len |-> 0, occs |-> <<>>]
Text(n, occs) == [isNull |-> FALSE, len |-> n, occs |-> occs]
TextTruthy(t) == ~t.isNull /\ t.len > 0

extractApplicantEmail(message, resumeText) ==
  LET all == <<message.body, message.htmlBody, resumeText>>
      sources == SelectSeq(all, TextTruthy)
      hit == ScanSources([k \in 1..Len(sources) |-> sources[k].occs])
  IN IF hit = Null THEN Null ELSE Trim(ToLowerCase(hit))

\* ---------------------------------------------------------------- messages
MsgIds == 1..NumMsgs

Occ(kind, addr) == [kind |-> kind, addr |-> addr]

Message(isApp, age, name, project, body, atts) ==
  [isApp |-> isApp, ageDays |-> age, name |-> name, project_id |-> project,
   body |-> body, htmlBody |-> Text(0, <<>>), attachments |-> atts]

\* ------------------------------------------------------ contact resolution
NoContact == [mobile_number |-> Null, email |-> Null, linkedin_url |-> Null]
Phone == <<"555">>
Profile == <<"in/ann">>

\* an attachment: whether canProcessFile accepts it, the text OCR yields
\* for it, and what the LLM extracts from that text
Attachment(canProcess, text, answer) ==
  [canProcess |-> canProcess, text |-> text, answer |-> answer]

Exe == Attachment(FALSE, Text(0, <<>>), NoContact)
Scan == Attachment(TRUE, Text(6, <<>>),
                   [mobile_number |-> Phone, email |-> GptMail, linkedin_url |-> Profile])
Cv == Attachment(TRUE, Text(8, <<Occ("plain", BobMail)>>),
                 [mobile_number |-> <<>>, email |-> <<>>, linkedin_url |-> Profile])
Pdf == Attachment(TRUE, Text(7, <<Occ("plain", BobMail)>>),
                  [mobile_number |-> Phone, email |-> BotMail, linkedin_url |-> Null])

Proj == <<"4242424">>

\* the kinds of message a mailbox may hold
MessageKinds ==
  << Message(FALSE, 3, Null, Null, Text(2, <<>>), <<>>),
     Message(TRUE, 31, <<"Ann">>, Proj, Text(4, <<Occ("plain", AnnMail)>>), <<>>),
     Message(FALSE, 31, Null, Null, Text(2, <<>>), <<>>),
     Message(TRUE, 3, Null, Null, Text(3, <<Occ("plain", AnnMail)>>), <<>>),
     Message(TRUE, 3, <<" ">>, Null, Text(3, <<Occ("plain", AnnMail)>>), <<>>),
     Message(TRUE, 3, <<"Bob">>, Null, Text(2, <<>>), <<Scan>>),
     Message(TRUE, 3, <<"Bob">>, Null, Text(2, <<>>), <<Exe, Cv>>),
     Message(TRUE, 30, <<" ", "Ann", " ">>, Proj,
             Text(4, <<Occ("plain", BotMail), Occ("plain", AnnMail)>>), <<>>),
     Message(TRUE, 3, <<"Ann">>, Proj, Text(4, <<Occ("mailto", AnnMail)>>), <<Pdf>>) >>

\* the mailboxes considered: message m is of kind m + shift (cyclically)
Mailboxes ==
  { [m \in 1..NumMsgs |-> MessageKinds[((m + shift) % Len(MessageKinds)) + 1]] :
      shift \in 1..Len(MessageKinds) }

\* the classifier and the field extractor are pure functions of the message;
\* here a message carries their results
isLinkedInApplication(message) == message.isApp

parseLinkedInApplication(message) ==
  [name |-> message.name, project_id |-> message.project_id]

\* ------------------------------------------------- EmailParser: classifier
\* a JavaScript string is a sequence of words (one space between two words);
\* "\n" is a line break and "" an empty field inside a joined string
Undefined == <<"UNDEFINED">>

\* the pieces of the classifier's expressions that occur inside a word
KeysOf(word) ==
  CASE word = "jobs-noreply@linkedin.com" ->
         {word, "noreply@linkedin.com", "linkedin.com", "linkedin", "job"}
    [] word = "news@linkedin.com" -> {word, "linkedin.com", "linkedin"}
    [] word \in {"", "\n"} -> {}
    [] OTHER -> {word}

\* /a.*b.*c/: the parts occur in this order on one line
Gap(parts) == [kind |-> "gap", parts |-> parts]
\* /a b c/: the words follow each other
Phrase(words) == [kind |-> "phrase", parts |-> [k \in 1..Len(words) |-> {words[k]}]]
Word(keys) == Gap(<<keys>>)

RECURSIVE GapMatch(_, _, _, _)
GapMatch(text, parts, k, from) ==
  IF k > Len(parts) THEN TRUE
  ELSE \E i \in from..Len(text) :
         /\ k > 1 => \A j \in from..i : text[j] # "\n"
         /\ KeysOf(text[i]) \cap parts[k] # {}
         /\ GapMatch(text, parts, k + 1, i + 1)

PhraseMatch(text, parts) ==
  \E i \in 1..Len(text) :
    \A k \in 1..Len(parts) : i + k - 1 <= Len(text) /\ text[i + k - 1] \in parts[k]

\* pattern.test(text) for a case-insensitive pattern
Test(pattern, text) ==
  IF pattern.kind = "gap" THEN GapMatch(ToLowerCase(text), pattern.parts, 1, 1)
  ELSE PhraseMatch(ToLowerCase(text), pattern.parts)

Some(patterns, text) == \E k \in 1..Len(patterns) : Test(patterns[k], text)

JobWords == {"job", "position", "role"}
IntentWords == {"application", "apply", "applied", "candidate", "resume", "cv"}

linkedInPatterns ==
  << Word({"jobs-listings@linkedin.com"}), Word({"jobs-noreply@linkedin.com"}),
     Word({"noreply@linkedin.com"}), Word({"linkedin.com"}),
     Phrase(<<"new", "application">>), Phrase(<<"job", "application">>),
     Phrase(<<"your", "job", "has", "a", "new", "applicant">>),
     Phrase(<<"application", "received">>), Phrase(<<"application", "submitted">>),
     Phrase(<<"thank", "you", "for", "applying">>), Phrase(<<"your", "application">>),
     Phrase(<<"we", "received", "your", "application">>),
     Phrase(<<"application", "status">>), Gap(<<{"applicant"}, {"submitted"}>>),
     Phrase(<<"candidate", "applied">>), Phrase(<<"resume", "received">>),
     Phrase(<<"cv", "received">>), Gap(<<{"applied"}, {"position"}>>),
     Gap(<<{"applied"}, {"role"}>>), Gap(<<{"applied"}, {"job"}>>),
     Gap(<<{"linkedin"}, {"application"}>>), Gap(<<{"linkedin"}, {"apply"}>>),
     Phrase(<<"easy", "apply">>), Gap(<<{"talent"}, {"application"}>>),
     Gap(<<{"recruitment"}, {"application"}>>), Gap(<<{"hiring"}, {"application"}>>),
     Gap(<<JobWords, IntentWords>>), Gap(<<IntentWords, JobWords>>) >>

excludePatterns ==
  << Gap(<<{"linkedin"}, {"premium"}, {"upgrade"}>>),
     Gap(<<{"linkedin"}, {"subscription"}>>), Gap(<<{"linkedin"}, {"billing"}>>),
     Gap(<<{"linkedin"}, {"payment"}>>), Gap(<<{"unsubscribe"}, {"marketing"}>>),
     Gap(<<{"promotional"}, {"offer"}>>), Gap(<<{"advertisement"}, {"sponsored"}>>),
     Gap(<<{"newsletter"}, {"weekly"}>>),
     Gap(<<{"upgrade", "subscribe", "premium"}, {"now", "today", "offer"}>>),
     Gap(<<{"billing", "payment"}, {"failed", "due", "overdue"}>>) >>

isFromLinkedInJobs(from) ==
  Test(Word({"jobs-listings@linkedin.com", "jobs-noreply@linkedin.com",
             "noreply@linkedin.com"}), from)

hasApplicationSubject(subject) ==
  Some(<< Phrase(<<"new", "application">>), Phrase(<<"job", "application">>),
          Phrase(<<"your", "job", "has", "a", "new", "applicant">>),
          Gap(<<{"application"}, {"from"}>>), Word({"applicant"}),
          Gap(<<{"candidate"}, {"applied"}>>) >>, subject)

hasJobKeywords(text) ==
  Test(Word({"job", "position", "role", "career", "opportunity"}), text)

hasApplicationKeywords(text) ==
  Test(Word({"application", "apply", "applied", "candidate", "resume", "cv",
             "applicant"}), text)

subjectIntent(subject) ==
  Some(<< Gap(<<{"application"}, {"for"}>>), Gap(<<{"applied"}, {"to"}>>),
          Phrase(<<"thank", "you", "for", "applying">>),
          Phrase(<<"application", "received">>) >>, subject)

\* a field of a template literal: an empty string leaves two spaces in a row
Field(text) == IF text = <<>> THEN <<"">> ELSE text

combinedText(subject, body, htmlBody, from) ==
  Field(subject) \o Field(body) \o Field(htmlBody) \o Field(from)

\* JavaScript values of the last expression: a || b and a && b give back one
\* of their operands
Bool(p) == IF p THEN "true" ELSE "false"
JsOr(a, b) == IF a = "true" THEN a ELSE b
JsAnd(a, b) == IF a = "true" THEN b ELSE a

hasAttachments(message) ==
  IF message.attachments = Undefined THEN "undefined"
  ELSE Bool(Len(message.attachments) > 0)

\* the expression without the test of the subject
isJobApplicationNoSubject(message, text) ==
  JsOr(JsOr(Bool(Some(linkedInPatterns, text)),
            Bool(hasJobKeywords(text) /\ hasApplicationKeywords(text))),
       JsAnd(hasAttachments(message), Bool(hasJobKeywords(text))))

isJobApplication(message, text) ==
  JsOr(JsOr(JsOr(Bool(Some(linkedInPatterns, text)),
                 Bool(hasJobKeywords(text) /\ hasApplicationKeywords(text))),
            Bool(subjectIntent(ToLowerCase(message.subject)))),
       JsAnd(hasAttachments(message), Bool(hasJobKeywords(text))))

Returned(value) == [threw |-> FALSE, value |-> value]
TypeError == [threw |-> TRUE, value |-> "TypeError"]

\* a classifier that looks at the exclusion list before the sender
VerdictExcludeFirst(from, subject, text, message) ==
  IF Some(excludePatterns, text) THEN "false"
  ELSE IF isFromLinkedInJobs(from) THEN "true"
  ELSE IF hasApplicationSubject(subject) THEN "true"
  ELSE isJobApplication(message, text)

Verdict(from, subject, text, message) ==
  IF isFromLinkedInJobs(from) THEN "true"
  ELSE IF hasApplicationSubject(subject) THEN "true"
  ELSE IF Some(excludePatterns, text) THEN "false"
  ELSE isJobApplication(message, text)

\* EmailParser.isLinkedInApplication on the text of a message: toLowerCase
\* of a missing subject, body or from raises
EmailParser_isLinkedInApplication(message) ==
  IF Undefined \in {message.subject, message.body, message.from} THEN TypeError
  ELSE LET subject == ToLowerCase(message.subject)
           body == ToLowerCase(message.body)
           htmlBody == ToLowerCase(IF message.htmlBody = Undefined THEN <<>>
                                   ELSE message.htmlBody)
           from == ToLowerCase(message.from)
       IN Returned(Verdict(from, subject,
                           combinedText(subject, body, htmlBody, from), message))


\* ------------------------------------------------ EmailParser: extraction
\* what the patterns of one field match in the sources of a message: a hit
\* says that source.match(pattern)[1] is text; at most one hit per pattern
\* and source
Hit(pattern, source, text) == [pattern |-> pattern, source |-> source, text |-> text]

\* if (match && match[1]): an empty capture counts as no match
Matches(hits, pattern, source) ==
  \E k \in 1..Len(hits) :
    hits[k].pattern = pattern /\ hits[k].source = source /\ hits[k].text # <<>>

Captured(hits, pattern, source) ==
  hits[CHOOSE k \in 1..Len(hits) :
         hits[k].pattern = pattern /\ hits[k].source = source].text

\* for (pattern of patterns) for (source of sources): the pairs in loop order
PatternMajor(patterns, sources) ==
  [k \in 1..(patterns * Len(sources)) |->
     [pattern |-> ((k - 1) \div Len(sources)) + 1,
      source |-> sources[((k - 1) % Len(sources)) + 1]]]

\* for (source of sources) for (pattern of patterns)
SourceMajor(patterns, sources) ==
  [k \in 1..(patterns * Len(sources)) |->
     [pattern |-> ((k - 1) % patterns) + 1,
      source |-> sources[((k - 1) \div patterns) + 1]]]

\* the loops return at the first pair that matched and passed
RECURSIVE FirstPassing(_, _)
FirstPassing(passes, k) ==
  IF k > Len(passes) THEN 0
  ELSE IF passes[k] THEN k
  ELSE FirstPassing(passes, k + 1)

\* -------------------------------------------------------------- amounts
\* an amount is a sequence of characters
IsDigit(c) == c \in {"0", "1", "2", "3", "4", "5", "6", "7", "8", "9"}

DigitValue(c) ==
  CASE c = "0" -> 0 [] c = "1" -> 1 [] c = "2" -> 2 [] c = "3" -> 3 [] c = "4" -> 4
    [] c = "5" -> 5 [] c = "6" -> 6 [] c = "7" -> 7 [] c = "8" -> 8 [] c = "9" -> 9

\* the characters that replace(/[,\s]/g, '') and replace(/[^\d.]/g, '') remove
IsSeparator(c) == c \in {",", " ", "\n"}
IsForeign(c) == ~IsDigit(c) /\ c # "."

\* the leading digits of a text
RECURSIVE DigitPrefix(_)
DigitPrefix(text) ==
  IF text # <<>> /\ IsDigit(Head(text)) THEN <<Head(text)>> \o DigitPrefix(Tail(text))
  ELSE <<>>

RECURSIVE Number(_)
Number(digits) ==
  IF digits = <<>> THEN 0
  ELSE 10 * Number(SubSeq(digits, 1, Len(digits) - 1)) + DigitValue(digits[Len(digits)])

\* parseFloat: the longest leading decimal numeral; its whole part and
\* whether its fraction is more than zero; NaN when there is no numeral
parseFloat(text) ==
  LET whole == DigitPrefix(text)
      rest == SubSeq(text, Len(whole) + 1, Len(text))
      fraction == IF rest # <<>> /\ Head(rest) = "." THEN DigitPrefix(Tail(rest))
                  ELSE <<>>
  IN [nan |-> whole = <<>> /\ fraction = <<>>,
      whole |-> Number(whole),
      fraction |-> \E k \in 1..Len(fraction) : fraction[k] # "0"]

Positive(num) == ~num.nan /\ (num.whole > 0 \/ num.fraction)

CompensationCeiling == 1000

\* a cleaner without the upper limit
cleanCompensationUnbounded(compensation) ==
  LET cleaned == SelectSeq(SelectSeq(compensation, LAMBDA c : ~IsSeparator(c)),
                           LAMBDA c : ~IsForeign(c))
      num == parseFloat(cleaned)
  IN IF Positive(num) THEN cleaned ELSE Null

cleanCompensation(compensation) ==
  LET cleaned == SelectSeq(SelectSeq(compensation, LAMBDA c : ~IsSeparator(c)),
                           LAMBDA c : ~IsForeign(c))
      num == parseFloat(cleaned)
  IN IF Positive(num) /\ num.whole < CompensationCeiling THEN cleaned ELSE Null

CompensationPatterns == 8
CleanedSources == <<"cleanBody", "cleanHtml", "emailBody", "htmlBody">>

extractCompensation(hits) ==
  LET order == SourceMajor(CompensationPatterns, CleanedSources)
      made == [k \in 1..Len(order) |->
                 IF Matches(hits, order[k].pattern, order[k].source)
                 THEN cleanCompensation(Captured(hits, order[k].pattern, order[k].source))
                 ELSE Null]
      passes == [k \in 1..Len(order) |->
                   made[k] # Null /\ Positive(parseFloat(made[k]))]
      first == FirstPassing(passes, 1)
  IN IF first = 0 THEN Null ELSE made[first]

\* ------------------------------------------------------------ locations
\* a location candidate is a sequence of words and commas; the location
\* patterns capture capitalised words of two letters or more and commas
\* between them, so that the steps of cleanLocation that remove addresses,
\* phone numbers, links, other punctuation, numbers and single letters leave
\* a candidate as it is

\* words of the first list cleanLocation removes (the list has some 600)
RemovedTerms ==
  {"strategic", "marketing", "transformation", "product", "excellence",
   "development", "engineering", "programming", "software", "technical",
   "business", "management", "analysis", "design", "consulting", "sales",
   "operations", "finance", "hr", "legal", "content", "digital", "advertising",
   "branding", "leadership", "executive", "director", "manager", "supervisor",
   "coordinator", "specialist", "analyst", "associate", "assistant", "intern",
   "trainee", "consultant", "research", "technology", "strategy", "planning",
   "quality", "testing", "support", "service", "remote", "global", "company"}

\* programming languages and products cleanLocation removes next
RemovedNames ==
  {"python", "java", "javascript", "react", "angular", "node", "php", "ruby",
   "go", "kotlin", "swift", "html", "css", "sql", "docker", "aws", "azure",
   "linux", "windows", "oracle", "microsoft", "google", "linkedin", "github"}

\* words of jobTermPattern, tested on what is left
JobTerms ==
  {"strategic", "marketing", "transformation", "product", "excellence",
   "development", "engineering", "management", "analysis", "design",
   "consulting", "sales", "operations", "finance", "hr", "legal", "content",
   "technical", "business", "software", "programming", "coding", "developer",
   "engineer", "manager", "analyst", "consultant", "designer", "specialist",
   "coordinator", "executive", "director", "lead", "senior", "junior",
   "associate", "intern", "trainee", "python", "java", "javascript", "react",
   "angular", "node", "php", "ruby", "html", "css", "sql", "docker", "aws",
   "azure", "linux", "windows", "oracle", "microsoft", "google", "linkedin",
   "github"}

IsComma(token) == token = ","

\* replace(/^[|\s\-,]+/, '') and replace(/[|\s\-,]+$/, '')
RECURSIVE DropLeading(_)
DropLeading(text) ==
  IF text # <<>> /\ IsComma(Head(text)) THEN DropLeading(Tail(text)) ELSE text

RECURSIVE DropTrailing(_)
DropTrailing(text) ==
  IF text # <<>> /\ IsComma(text[Len(text)])
  THEN DropTrailing(SubSeq(text, 1, Len(text) - 1))
  ELSE text

\* replace(/,\s*,/g, ','): each pair of neighbouring commas, from the left
RECURSIVE CollapseCommas(_)
CollapseCommas(text) ==
  IF Len(text) < 2 THEN text
  ELSE IF IsComma(text[1]) /\ IsComma(text[2])
  THEN <<",">> \o CollapseCommas(SubSeq(text, 3, Len(text)))
  ELSE <<Head(text)>> \o CollapseCommas(Tail(text))

\* replace(/,\s*$/, '') and replace(/^\s*,/, ''): one comma at either end
TrimOneComma(text) ==
  LET front == IF text # <<>> /\ IsComma(text[Len(text)])
               THEN SubSeq(text, 1, Len(text) - 1) ELSE text
  IN IF front # <<>> /\ IsComma(Head(front)) THEN Tail(front) ELSE front

HasJobTerm(text) == \E k \in 1..Len(text) : LowerAtom(text[k]) \in JobTerms

cleanLocation(location) ==
  IF location = <<>> THEN <<>>
  ELSE LET cleaned ==
             TrimOneComma(CollapseCommas(
               SelectSeq(SelectSeq(DropTrailing(DropLeading(location)),
                                   LAMBDA w : LowerAtom(w) \notin RemovedTerms),
                         LAMBDA w : LowerAtom(w) \notin RemovedNames)))
       IN IF HasJobTerm(cleaned) THEN <<>> ELSE cleaned

\* words that are no location when they stand alone (three lists)
LoneInvalidWords ==
  JobTerms \cup
  {"human", "resources", "experience", "current", "past", "skills",
   "qualifications", "screening", "questions", "answers", "yes", "no", "true",
   "false", "stack", "overflow", "medium", "dev", "to", "new", "application",
   "from", "job", "at", "with", "for", "in", "the", "and", "or", "but", "your",
   "has", "this", "that", "view", "all", "click", "here", "link", "email",
   "message", "body", "subject", "candidate", "applicant", "resume", "cv",
   "profile", "about", "contact", "phone", "mobile", "website", "work",
   "working", "years", "time", "tools", "team", "communication"}

\* countries, states and cities of locationKeywords (the lists have some 1500)
LocationWords ==
  {"india", "indonesia", "singapore", "japan", "canada", "germany", "france",
   "texas", "california", "karnataka", "maharashtra", "haryana", "delhi",
   "mumbai", "pune", "bengaluru", "bangalore", "hyderabad", "chennai",
   "gurugram", "noida", "london", "paris", "tokyo", "sydney"}

isValidLocation(location) ==
  /\ location # <<>>
  /\ ~(Len(location) = 1 /\ LowerAtom(location[1]) \in LoneInvalidWords)
  /\ ~Test(Word({"|"}), location)
  /\ ~Test(Word({"excellence"}), location)
  /\ ~Test(Gap(<<{"strategic"}, {"marketing"}>>), location)
  /\ ~Test(Gap(<<{"marketing"}, {"transformation"}>>), location)
  /\ ~Test(Gap(<<{"go"}, {"to"}, {"market"}>>), location)
  /\ ~Test(Gap(<<{"product"}, {"marketing"}>>), location)
  /\ \E k \in 1..Len(location) : ~IsComma(location[k])
  /\ \/ \E k \in 1..Len(location) : LowerAtom(location[k]) \in LocationWords
     \/ \E k \in 1..Len(location) : IsComma(location[k])

LocationPatterns == 7

\* a search with the patterns in the outer loop
extractLocationPatternMajor(hits) ==
  LET order == PatternMajor(LocationPatterns, CleanedSources)
      made == [k \in 1..Len(order) |->
                 IF Matches(hits, order[k].pattern, order[k].source)
                 THEN cleanLocation(Trim(Captured(hits, order[k].pattern,
                                                  order[k].source)))
                 ELSE <<>>]
      passes == [k \in 1..Len(order) |-> isValidLocation(made[k])]
      first == FirstPassing(passes, 1)
  IN IF first = 0 THEN Null ELSE made[first]

extractLocation(hits) ==
  LET order == SourceMajor(LocationPatterns, CleanedSources)
      made == [k \in 1..Len(order) |->
                 IF Matches(hits, order[k].pattern, order[k].source)
                 THEN cleanLocation(Trim(Captured(hits, order[k].pattern,
                                                  order[k].source)))
                 ELSE <<>>]
      passes == [k \in 1..Len(order) |-> isValidLocation(made[k])]
      first == FirstPassing(passes, 1)
  IN IF first = 0 THEN Null ELSE made[first]

\* ------------------------------------------------------- names and titles
\* a name or a title is a sequence of words (" " stands for white space at
\* either end)
MessageSources == <<"subject", "emailBody", "htmlBody">>

\* /^[A-Z][a-z]+/: the first word begins with a capital letter
Capitalised(word) == LowerAtom(word) # word

\* words that are no name when they stand alone (three lists)
LoneInvalidNames ==
  {"new", "application", "from", "job", "candidate", "applicant", "developer",
   "engineer", "manager", "senior", "junior", "lead", "position", "role",
   "title", "at", "with", "for", "in", "strategic", "marketing",
   "transformation", "product", "excellence", "development", "engineering",
   "management", "analysis", "design", "consulting", "sales", "operations",
   "finance", "hr", "legal", "content", "technical", "business", "software",
   "programming", "coding", "wrong", "world", "south", "north", "east", "west",
   "your", "has", "the", "and", "or", "but", "if", "when", "where", "what",
   "how", "why", "this", "that", "these", "those", "delhi", "mumbai",
   "bangalore", "chennai", "kolkata", "hyderabad", "pune", "india", "karnataka",
   "maharashtra", "gujarat", "rajasthan"}

isValidName(name) ==
  /\ name # <<>>
  /\ Capitalised(Head(name))
  /\ ~(Len(Trim(name)) = 1 /\ LowerAtom(Trim(name)[1]) \in LoneInvalidNames)

NamePatterns == 12

extractName(hits) ==
  LET order == PatternMajor(NamePatterns, MessageSources)
      made == [k \in 1..Len(order) |->
                 IF Matches(hits, order[k].pattern, order[k].source)
                 THEN Trim(Captured(hits, order[k].pattern, order[k].source))
                 ELSE <<>>]
      passes == [k \in 1..Len(order) |-> isValidName(made[k])]
      first == FirstPassing(passes, 1)
  IN IF first = 0 THEN Null ELSE made[first]

NoiseWords ==
  {"currently", "presently", "working", "position", "role", "job", "title",
   "at", "with", "for", "in", "company", "organization", "firm", "corp", "inc",
   "ltd", "llc", "pvt", "private", "limited"}

cleanJobTitle(title) ==
  IF title = <<>> THEN <<>>
  ELSE SelectSeq(SelectSeq(DropTrailing(DropLeading(Trim(title))),
                           LAMBDA w : LowerAtom(w) \notin NoiseWords),
                 LAMBDA w : ~IsComma(w))

\* words of validJobWords (the list has some 250); the test has no word
\* boundaries
ValidJobWords ==
  {"head", "director", "chief", "manager", "senior", "junior", "lead",
   "principal", "staff", "specialist", "analyst", "consultant", "designer",
   "architect", "programmer", "developer", "engineer", "scientist", "sales",
   "marketing", "operations", "finance", "hr", "legal", "product", "project",
   "technical", "business", "data", "software", "web", "mobile", "content",
   "brand", "design", "strategy", "growth"}

LoneInvalidTitles ==
  {"new", "application", "from", "job", "at", "with", "for", "in", "the", "and",
   "or", "but", "your", "has", "this", "that", "candidate", "applicant",
   "resume", "cv", "portfolio", "profile", "about", "contact", "skills",
   "experience", "education", "qualifications", "screening", "questions",
   "answers", "currently", "presently", "working", "position", "role", "title",
   "company", "organization", "firm", "corp", "inc", "ltd", "llc", "pvt",
   "private", "limited", "strategic", "marketing", "transformation",
   "excellence"}

isValidJobTitle(title) ==
  /\ title # <<>>
  /\ Test(Word(ValidJobWords), title)
  /\ ~(Len(title) = 1 /\ LowerAtom(title[1]) \in LoneInvalidTitles)

TitlePatterns == 10

extractJobTitle(hits) ==
  LET order == PatternMajor(TitlePatterns, MessageSources)
      made == [k \in 1..Len(order) |->
                 IF Matches(hits, order[k].pattern, order[k].source)
                 THEN cleanJobTitle(Trim(Captured(hits, order[k].pattern,
                                                  order[k].source)))
                 ELSE <<>>]
      passes == [k \in 1..Len(order) |-> isValidJobTitle(made[k])]
      first == FirstPassing(passes, 1)
  IN IF first = 0 THEN Null ELSE made[first]

\* ------------------------------------------------------------ project ids
\* a project id is a sequence of digits
ProjectIdPatterns == 13
ProjectIdSources == <<"htmlBody", "emailBody", "subject">>
ProjectIdMin == 6
ProjectIdMax == 15

extractProjectId(hits) ==
  LET order == SourceMajor(ProjectIdPatterns, ProjectIdSources)
      made == [k \in 1..Len(order) |->
                 IF Matches(hits, order[k].pattern, order[k].source)
                 THEN Captured(hits, order[k].pattern, order[k].source)
                 ELSE <<>>]
      passes == [k \in 1..Len(order) |->
                   made[k] # <<>> /\ Len(made[k]) >= ProjectIdMin
                                  /\ Len(made[k]) <= ProjectIdMax]
      first == FirstPassing(passes, 1)
  IN IF first = 0 THEN Null ELSE made[first]

\* ---------------------------------------------------- screening questions
\* the text of the screening questions is a sequence of characters
IsWhite(c) == c \in {" ", "\n"}

RECURSIVE SkipWhite(_)
SkipWhite(text) ==
  IF text # <<>> /\ IsWhite(Head(text)) THEN SkipWhite(Tail(text)) ELSE text

\* replace(/\s+/g, ' ')
RECURSIVE CollapseWhite(_)
CollapseWhite(text) ==
  IF text = <<>> THEN <<>>
  ELSE IF IsWhite(Head(text)) THEN <<" ">> \o CollapseWhite(SkipWhite(text))
  ELSE <<Head(text)>> \o CollapseWhite(Tail(text))

IsBullet(c) == c \in {"-", "|"}

ScreeningWord == <<"s", "c", "r", "e", "e", "n", "i", "n", "g">>

\* replace(/^\s*screening\s*:?\s*/i, '')
StripScreening(text) ==
  LET start == TrimLeft(text)
  IN IF Len(start) >= Len(ScreeningWord)
        /\ ToLowerCase(SubSeq(start, 1, Len(ScreeningWord))) = ScreeningWord
     THEN LET after == TrimLeft(SubSeq(start, Len(ScreeningWord) + 1, Len(start)))
          IN IF after # <<>> /\ Head(after) = ":" THEN TrimLeft(Tail(after))
             ELSE after
     ELSE text

cleanScreeningQuestions(questions) ==
  Trim(StripScreening(SelectSeq(CollapseWhite(questions),
                               LAMBDA c : ~IsBullet(c))))

ScreeningPatterns == 8
ScreeningMin == 15

extractScreeningQuestions(hits) ==
  LET order == SourceMajor(ScreeningPatterns, CleanedSources)
      made == [k \in 1..Len(order) |->
                 IF Matches(hits, order[k].pattern, order[k].source)
                 THEN cleanScreeningQuestions(Captured(hits, order[k].pattern,
                                                       order[k].source))
                 ELSE <<>>]
      passes == [k \in 1..Len(order) |->
                   made[k] # <<>> /\ Len(made[k]) > ScreeningMin]
      first == FirstPassing(passes, 1)
  IN IF first = 0 THEN Null ELSE made[first]

NoParse == [pc |-> "idle", op |-> "", input |-> <<>>, out |-> Returned("")]

\* initialize() has completed: every start-up step succeeded
Booted == [pc |-> "ready", step |-> 0, failed |-> {}, criticalFailures |-> 0, local |-> FALSE]

\* no getLatestEmails call in progress
NoFetch ==
  [pc |-> "idle", paged |-> FALSE, maxResults |-> 0, allMessages |-> <<>>,
   pageToken |-> FALSE, pageNumber |-> 1, totalFetched |-> 0, calls |-> 0,
   lo |-> 0, hi |-> 0, dropped |-> {}, rested |-> FALSE, out |-> <<>>]

\* ------------------------------------------------------------------ state
VARIABLES
  mailbox,    \* message id -> message held by the mail provider
  cfg,        \* CONFIG of the deployment: DRY_RUN, ENABLE_OCR, ENABLE_GPT
  pc,         \* position of main(): "idle", "loop", "exit"
  batch,      \* messages returned by getLatestEmails for this run
  idx,        \* loop index i of processEmails (1-based)
  ledger,     \* processed-messages table: set of rows
  sheet,      \* spreadsheet: sequence of appended rows
  db,         \* applicant table: set of rows, primary key email
  drive,      \* message id -> number of files uploaded for it
  inflight,   \* sink writes still running after Promise.all rejected
  stats,      \* this.stats of the current run
  last,       \* the most recent processMessage call: its steps and outcome
  handled,    \* ids of the messages processMessage has been called on
  passed,     \* message id -> status given to its latest markProcessed call
  faults,     \* collaborator failures so far
  rq,         \* the isDuplicateApplicant call in progress (retry wrapper)
  pq,         \* the EmailParser call in progress: operation, input, result
  boot,       \* initialize(): the step reached, the checks that failed
  gm          \* the getLatestEmails call in progress (GmailService)

vars == <<mailbox, cfg, pc, batch, idx, ledger, sheet, db, drive,
          inflight, stats, last, handled, passed, faults, rq, pq, boot, gm>>

\* --------------------------------------------------------- StorageManager
\* an insert that ignores the conflict key
UpsertAsInsert(table, key, row) == table \cup {row}

\* .upsert(row, { onConflict: key }): the row replaces the one with its key
Upsert(table, key, row) == {r \in table : r[key] # row[key]} \cup {row}

\* new Date(): the day of the run, counted in days
Today == 100

\* .single() yields a row only when the query succeeds with exactly one row
isProcessed(table, messageId, lookupOk) ==
  lookupOk /\ Cardinality({r \in table : r.message_id = messageId}) = 1

Metadata(skipReason, error) == [skipReason |-> skipReason, error |-> error]

\* the upsert is attempted once; a failure is logged and swallowed
markProcessed(table, messageId, status, metadata, upsertOk) ==
  IF upsertOk
  THEN Upsert(table, "message_id",
              [message_id |-> messageId, status |-> status,
               processed_at |-> Today,
               skipReason |-> metadata.skipReason,
               error_details |-> IF status = "error" THEN metadata.error ELSE ""])
  ELSE table

ApplicantRow(applicantData, messageId) ==
  [message_id |-> messageId, email |-> applicantData.email,
   name |-> applicantData.name, project_id |-> applicantData.project_id]

createApplicant(table, applicantData, messageId) ==
  Upsert(table, "email", ApplicantRow(applicantData, messageId))

appendApplicant(rows, applicantData, messageId) ==
  Append(rows, ApplicantRow(applicantData, messageId))

\* ------------------------------------------------------- SupabaseService
\* the query of isDuplicateApplicant: by email, and by project when one is given
MatchingApplicants(table, email, projectId) ==
  {r \in table : r.email = email /\ (Truthy(projectId) => r.project_id = projectId)}

\* ------------------------------------------------- attachment pipeline
\* what the collaborators do for one attachment: each call works or fails
AttEnv(download, upload, ocr) == [download |-> download, upload |-> upload, ocr |-> ocr]

AllWork == AttEnv(TRUE, TRUE, TRUE)

AttEnvs(attachment, config) ==
  IF ~attachment.canProcess THEN {AllWork}
  ELSE {AllWork, AttEnv(FALSE, TRUE, TRUE), AttEnv(TRUE, FALSE, TRUE)}
       \cup (IF config.ENABLE_OCR THEN {AttEnv(TRUE, TRUE, FALSE)} ELSE {})

AttEnvSeqs(atts, config) ==
  {e \in [1..Len(atts) -> UNION {AttEnvs(atts[k], config) : k \in 1..Len(atts)}] :
     \A k \in 1..Len(atts) : e[k] \in AttEnvs(atts[k], config)}

AttFaults(e) ==
  (IF e.download THEN 0 ELSE 1) + (IF e.upload THEN 0 ELSE 1) + (IF e.ocr THEN 0 ELSE 1)

RECURSIVE SumFaults(_)
SumFaults(envs) == IF envs = <<>> THEN 0 ELSE AttFaults(Head(envs)) + SumFaults(Tail(envs))

\* convertFileToText never throws: a failure is a result that is not processed
convertFileToText(attachment, works) ==
  IF works
  THEN [processed |-> TRUE, length |-> attachment.text.len, text |-> attachment.text]
  ELSE [processed |-> FALSE, length |-> 0, text |-> Text(5, <<>>)]

NoAttachments ==
  [resumeText |-> NoText, answer |-> NoContact, resumeDriveLink |-> FALSE,
   uploads |-> 0, steps |-> <<>>]

\* one iteration of the loop over message.attachments
ProcessAttachment(acc, attachment, env, config) ==
  IF ~attachment.canProcess THEN [acc EXCEPT !.steps = Append(@, "canProcessFile")]
  ELSE IF ~env.download
    THEN [acc EXCEPT !.steps = @ \o <<"canProcessFile", "downloadAttachment">>]
  ELSE IF ~env.upload
    THEN [acc EXCEPT !.steps = @ \o <<"canProcessFile", "downloadAttachment", "uploadFile">>]
  ELSE LET linked == [acc EXCEPT !.resumeDriveLink = TRUE, !.uploads = @ + 1,
                                 !.steps = @ \o <<"canProcessFile", "downloadAttachment", "uploadFile">>]
       IN IF ~config.ENABLE_OCR THEN linked
          ELSE LET ocrResult == convertFileToText(attachment, env.ocr)
                   better == ocrResult.processed /\ ocrResult.length > 0
                             /\ (~TextTruthy(acc.resumeText) \/ ocrResult.length > acc.resumeText.len)
               IN [linked EXCEPT !.resumeText = IF better THEN ocrResult.text ELSE @,
                                 !.answer = IF better THEN attachment.answer ELSE @,
                                 !.steps = Append(@, "convertFileToText")]

RECURSIVE ProcessAttachments(_, _, _, _)
ProcessAttachments(acc, atts, envs, config) ==
  IF atts = <<>> THEN acc
  ELSE ProcessAttachments(ProcessAttachment(acc, Head(atts), Head(envs), config),
                          Tail(atts), Tail(envs), config)

\* a version that hands the answer on whether or not the call worked
extractContactInfoUnguarded(answer, works) ==
  [mobile_number |-> OrElse(answer.mobile_number, Null),
   email |-> OrElse(answer.email, Null),
   linkedin_url |-> OrElse(answer.linkedin_url, Null)]

\* extractContactInfo never throws: a failed call or reply yields all nulls
extractContactInfo(answer, works) ==
  IF works
  THEN [mobile_number |-> OrElse(answer.mobile_number, Null),
        email |-> OrElse(answer.email, Null),
        linkedin_url |-> OrElse(answer.linkedin_url, Null)]
  ELSE NoContact

\* a merge that prefers the address of the direct scan
MergeContactDirectFirst(gptContactInfo, applicantEmail) ==
  [mobile_number |-> OrElse(gptContactInfo.mobile_number, Null),
   email |-> OrElse(applicantEmail, gptContactInfo.email),
   linkedin_url |-> OrElse(gptContactInfo.linkedin_url, Null)]

MergeContact(gptContactInfo, applicantEmail) ==
  [mobile_number |-> OrElse(gptContactInfo.mobile_number, Null),
   email |-> OrElse(gptContactInfo.email, applicantEmail),
   linkedin_url |-> OrElse(gptContactInfo.linkedin_url, Null)]

\* ------------------------------------------------------------ Orchestrator
NoData == [email |-> Null, name |-> Null, project_id |-> Null,
           mobile_number |-> Null, linkedin_url |-> Null]

\* the collaborators' behaviour during one processMessage call
PersistOutcomes ==
  {"ok", "sheetFailed_dbDone", "sheetFailed_dbPending",
   "dbFailed_sheetDone", "dbFailed_sheetPending"}

\* the two checks in the other order: the classification reason wins
SkipReasonAgeFirst(notApplication, tooOld) ==
  LET afterAge == IF tooOld THEN "Too old" ELSE ""
  IN IF notApplication THEN "Not LinkedIn application" ELSE afterAge

\* skipReason after the classification check and then the age check
SkipReason(notApplication, tooOld) ==
  LET afterClassify == IF notApplication THEN "Not LinkedIn application" ELSE ""
  IN IF tooOld THEN "Too old" ELSE afterClassify

NameMissing(parsedData) ==
  parsedData.name = Null \/ ~Truthy(Trim(parsedData.name))

\* no check of the address before the sinks
EmailMissingUnchecked(applicantEmail) == FALSE

EmailMissing(applicantEmail) == ~Truthy(applicantEmail)

\* the guard of an earlier revision: look the candidate up before the sinks
DuplicateGuardLookup(table, email, projectId) ==
  MatchingApplicants(table, email, projectId) # {}

\* the candidate-level duplicate check was removed from processMessage
DuplicateGuard(table, email, projectId) == FALSE

WritesToSinks(config) == ~config.DRY_RUN

Begin(S) ==
  [ledger |-> S.ledger, sheet |-> S.sheet, db |-> S.db, drive |-> S.drive,
   inflight |-> S.inflight, stats |-> S.stats, steps |-> <<"isProcessed">>,
   outcome |-> "already", reason |-> "", threw |-> FALSE, error |-> "",
   sinksInvoked |-> FALSE, applicantData |-> NoData, marked |-> FALSE,
   status |-> "", wasDuplicate |-> FALSE, direct |-> Null, resume |-> FALSE,
   answer |-> NoContact, gptCalled |-> FALSE, gpt |-> NoContact,
   resolved |-> NoContact]

Step(R, name) == [R EXCEPT !.steps = Append(@, name)]

Mark(R, messageId, status, metadata, env) ==
  [Step(R, "markProcessed") EXCEPT
     !.ledger = markProcessed(R.ledger, messageId, status, metadata, env.markOk),
     !.marked = TRUE, !.status = status]

\* an earlier revision recorded one status per skip reason
SkipStatusByReason(reason) ==
  CASE reason = "Not LinkedIn application" -> "not_linkedin"
    [] reason = "Too old" -> "too_old"
    [] reason = "No applicant name found" -> "no_name"
    [] OTHER -> "no_email"

\* every skip is recorded with the one status 'skipped'
SkipStatus(reason) == "skipped"

Skip(R, messageId, reason, env) ==
  [Mark([R EXCEPT !.stats.emailsSkipped = @ + 1], messageId, SkipStatus(reason),
        Metadata(reason, ""), env)
   EXCEPT !.outcome = "skipped", !.reason = reason]

\* the catch block of processMessage: count, record, mark error, rethrow
Catch(R, messageId, message, env) ==
  [Mark([R EXCEPT !.stats.emailsErrored = @ + 1,
                  !.stats.errors = Append(@, messageId)],
        messageId, "error", Metadata("", message), env)
   EXCEPT !.outcome = "error", !.threw = TRUE, !.error = message]

\* Promise.all over the two sink writes
Persist(R, applicantData, messageId, outcome) ==
  LET row == ApplicantRow(applicantData, messageId)
      called == [Step(Step(R, "appendApplicant"), "createApplicant")
                 EXCEPT !.sinksInvoked = TRUE, !.applicantData = applicantData]
  IN CASE outcome = "ok" ->
            [called EXCEPT !.sheet = appendApplicant(@, applicantData, messageId),
                           !.db = createApplicant(@, applicantData, messageId)]
       [] outcome = "sheetFailed_dbDone" ->
            [called EXCEPT !.db = createApplicant(@, applicantData, messageId),
                           !.error = "Sheet append failed"]
       [] outcome = "sheetFailed_dbPending" ->
            [called EXCEPT !.inflight = @ \cup {[sink |-> "db", data |-> applicantData, id |-> messageId]},
                           !.error = "Sheet append failed"]
       [] outcome = "dbFailed_sheetDone" ->
            [called EXCEPT !.sheet = appendApplicant(@, applicantData, messageId),
                           !.error = "Supabase create applicant failed"]
       [] outcome = "dbFailed_sheetPending" ->
            [called EXCEPT !.inflight = @ \cup {[sink |-> "sheet", data |-> applicantData, id |-> messageId]},
                           !.error = "Supabase create applicant failed"]

Succeed(R, messageId, env) ==
  [Mark([R EXCEPT !.stats.emailsProcessed = @ + 1,
                  !.stats.applicantsCreated = @ + 1],
        messageId, "success", Metadata("", ""), env)
   EXCEPT !.outcome = "success"]

Duplicate(R, messageId, env) ==
  [Mark([R EXCEPT !.stats.duplicatesFound = @ + 1], messageId, "duplicate",
        Metadata("Duplicate applicant", ""), env)
   EXCEPT !.outcome = "duplicate"]

\* from the e-mail extraction to the ledger write
Resolve(R, messageId, message, parsedData, att, S, env) ==
  LET applicantEmail == extractApplicantEmail(message, att.resumeText)
      R1 == [Step(R, "extractApplicantEmail") EXCEPT
               !.direct = applicantEmail, !.resume = TextTruthy(att.resumeText),
               !.answer = att.answer]
  IN IF EmailMissing(applicantEmail) THEN Skip(R1, messageId, "No email found", env)
     ELSE
       LET useGpt == TextTruthy(att.resumeText) /\ S.cfg.ENABLE_GPT
           gptContactInfo == extractContactInfo(att.answer, env.gpt)
           contactInfo == IF useGpt
                          THEN MergeContact(gptContactInfo, applicantEmail)
                          ELSE [mobile_number |-> Null, email |-> applicantEmail,
                                linkedin_url |-> Null]
           R2 == [(IF useGpt
                   THEN [Step(R1, "extractContactInfo") EXCEPT
                           !.gptCalled = TRUE, !.gpt = gptContactInfo]
                   ELSE R1) EXCEPT !.resolved = contactInfo]
           applicantData ==
             [email |-> contactInfo.email, name |-> Trim(parsedData.name),
              project_id |-> OrElse(parsedData.project_id, Null),
              mobile_number |-> OrElse(contactInfo.mobile_number, Null),
              linkedin_url |-> OrElse(contactInfo.linkedin_url, Null)]
           R2d == [R2 EXCEPT !.wasDuplicate =
                     MatchingApplicants(S.db, contactInfo.email, parsedData.project_id) # {}]
       IN IF DuplicateGuard(R2.db, contactInfo.email, parsedData.project_id)
          THEN Duplicate(R2d, messageId, env)
          ELSE LET R3 == IF WritesToSinks(S.cfg)
                         THEN Persist(R2d, applicantData, messageId, env.persist)
                         ELSE R2d
               IN IF R3.error # "" THEN Catch(R3, messageId, R3.error, env)
                  ELSE Succeed(R3, messageId, env)

processMessage(messageId, message, S, env) ==
  LET R0 == Begin(S)
  IN IF isProcessed(S.ledger, messageId, env.lookupOk)
     THEN [R0 EXCEPT !.stats.emailsSkipped = @ + 1]
     ELSE
       LET notApplication == ~isLinkedInApplication(message)
           tooOld == message.ageDays > MAX_EMAIL_AGE_DAYS
           R1 == Step(Step(R0, "isLinkedInApplication"), "emailAge")
       IN IF notApplication \/ tooOld
          THEN Skip(R1, messageId, SkipReason(notApplication, tooOld), env)
          ELSE
            LET parsedData == parseLinkedInApplication(message)
                R2 == Step(R1, "parseLinkedInApplication")
            IN IF NameMissing(parsedData)
               THEN Skip(R2, messageId, "No applicant name found", env)
               ELSE
                 LET att == ProcessAttachments(NoAttachments, message.attachments,
                                               env.atts, S.cfg)
                     R3 == [R2 EXCEPT !.steps = @ \o att.steps,
                                      !.drive[messageId] = @ + att.uploads]
                 IN Resolve(R3, messageId, message, parsedData, att, S, env)

\* the outcomes the collaborators can produce for one call on this message;
\* an outcome the call never consults is left at "works"
Env(l, k, a, g, p) == [lookupOk |-> l, markOk |-> k, atts |-> a, gpt |-> g, persist |-> p]

EnvFaults(env) ==
  (IF env.lookupOk THEN 0 ELSE 1) + (IF env.markOk THEN 0 ELSE 1) + SumFaults(env.atts)
  + (IF env.gpt THEN 0 ELSE 1) + (IF env.persist = "ok" THEN 0 ELSE 1)

Envs(messageId, message, table, config) ==
  LET tracked == Cardinality({r \in table : r.message_id = messageId}) = 1
      reaches == /\ isLinkedInApplication(message)
                 /\ ~(message.ageDays > MAX_EMAIL_AGE_DAYS)
                 /\ ~NameMissing(parseLinkedInApplication(message))
      Late(a) ==
        LET att == ProcessAttachments(NoAttachments, message.attachments, a, config)
            found == ~EmailMissing(extractApplicantEmail(message, att.resumeText))
        IN { <<g, p>> :
               g \in IF found /\ TextTruthy(att.resumeText) /\ config.ENABLE_GPT
                     THEN BOOLEAN ELSE {TRUE},
               p \in IF found /\ WritesToSinks(config) THEN PersistOutcomes ELSE {"ok"} }
      Fresh == IF reaches
               THEN UNION { { Env(l, k, a, t[1], t[2]) :
                                l \in {FALSE}, k \in BOOLEAN, t \in Late(a) } :
                              a \in AttEnvSeqs(message.attachments, config) }
               ELSE { Env(FALSE, k, <<>>, TRUE, "ok") : k \in BOOLEAN }
      Untracked == { [e EXCEPT !.lookupOk = TRUE] : e \in Fresh }
  IN IF tracked THEN {Env(TRUE, TRUE, <<>>, TRUE, "ok")} \cup Fresh ELSE Untracked

Config(dry, ocr, gpt) == [DRY_RUN |-> dry, ENABLE_OCR |-> ocr, ENABLE_GPT |-> gpt]

DefaultConfig == Config(FALSE, TRUE, TRUE)

\* the configurations considered
Configs == {DefaultConfig, Config(TRUE, TRUE, TRUE), Config(FALSE, FALSE, TRUE),
            Config(FALSE, TRUE, FALSE)}

RECURSIVE Ascending(_)
Ascending(ids) ==
  IF ids = {} THEN <<>>
  ELSE LET least == CHOOSE a \in ids : \A b \in ids : a <= b
       IN <<least>> \o Ascending(ids \ {least})

\* getLatestEmails returns the first messages of the mailbox listing
Batches == {Ascending(1..n) : n \in 0..NumMsgs}

NewStats ==
  [emailsFound |-> 0, emailsProcessed |-> 0, emailsSkipped |-> 0,
   emailsErrored |-> 0, applicantsCreated |-> 0, duplicatesFound |-> 0,
   errors |-> <<>>]

NoCall ==
  [id |-> 0, prior |-> 0, steps |-> <<>>, outcome |-> "", reason |-> "",
   threw |-> FALSE, error |-> "", sinksInvoked |-> FALSE,
   applicantData |-> NoData, marked |-> FALSE, markOk |-> FALSE,
   idle |-> TRUE, uploads |-> 0, count |-> 0, wasDuplicate |-> FALSE,
   direct |-> Null, resume |-> FALSE, answer |-> NoContact, gptCalled |-> FALSE,
   gptOk |-> FALSE, gpt |-> NoContact, resolved |-> NoContact]

\* per message: the status of the latest markProcessed call, the status of
\* the latest call whose upsert the store applied, and how many were applied
NoMark == [status |-> "", applied |-> "", writes |-> 0]

Marked(mark, status, upsertOk) ==
  IF upsertOk THEN [status |-> status, applied |-> status, writes |-> mark.writes + 1]
  ELSE [mark EXCEPT !.status = status]

NoRequest ==
  [pc |-> "idle", email |-> Null, projectId |-> Null, attempt |-> 0, calls |-> 0,
   waited |-> <<>>, errors |-> <<>>, lookupOk |-> FALSE, data |-> {}, raised |-> 0,
   result |-> "none", threw |-> FALSE]

Init ==
  /\ mailbox \in Mailboxes
  /\ cfg \in Configs
  /\ pc = "idle"
  /\ batch = <<>>
  /\ idx = 1
  /\ ledger = {}
  /\ sheet = <<>>
  /\ db = {}
  /\ drive = [m \in MsgIds |-> 0]
  /\ inflight = {}
  /\ stats = NewStats
  /\ last = NoCall
  /\ handled = {}
  /\ passed = [m \in MsgIds |-> NoMark]
  /\ faults = 0
  /\ rq = NoRequest
  /\ pq = NoParse
  /\ boot = Booted
  /\ gm = NoFetch

\* main(): a new process, its CONFIG, and the fetch that opens processEmails
StartRun ==
  /\ pc = "idle"
  /\ \E fetched \in Batches :
       /\ batch' = fetched
       /\ stats' = [NewStats EXCEPT !.emailsFound = Len(fetched)]
       /\ pc' = IF fetched = <<>> THEN "exit" ELSE "loop"
  /\ idx' = 1
  /\ last' = NoCall
  /\ UNCHANGED <<mailbox, cfg, ledger, sheet, db, drive, inflight, handled, passed, faults, rq, pq, boot, gm>>

\* a loop that gives up on the batch when a call throws
NextIndexAbort(i, threw, n) == IF threw THEN n + 1 ELSE i + 1

\* the for loop moves on to the next message whether or not the call threw
NextIndex(i, threw, n) == i + 1

\* the catch block of the loop in processEmails
LoopCatch(st, messageId) ==
  [st EXCEPT !.emailsErrored = @ + 1, !.errors = Append(@, messageId)]

\* one iteration of the loop: processMessage(messages[i]) and the loop's catch
ProcessNext ==
  /\ pc = "loop"
  /\ idx <= Len(batch)
  /\ LET messageId == batch[idx]
         message == mailbox[messageId]
         S == [ledger |-> ledger, sheet |-> sheet, db |-> db, drive |-> drive,
               inflight |-> inflight, stats |-> stats, cfg |-> cfg]
     IN \E env \in Envs(messageId, message, ledger, cfg) :
          /\ faults + EnvFaults(env) <= MaxFaults
          /\ faults' = faults + EnvFaults(env)
          /\ \E R \in {processMessage(messageId, message, S, env)} :
                /\ ledger' = R.ledger
                /\ sheet' = R.sheet
                /\ db' = R.db
                /\ drive' = R.drive
                /\ inflight' = R.inflight
                /\ stats' = IF R.threw THEN LoopCatch(R.stats, messageId) ELSE R.stats
                /\ idx' = NextIndex(idx, R.threw, Len(batch))
                /\ last' = [id |-> messageId, prior |-> IF messageId \in handled THEN 1 ELSE 0,
                            steps |-> R.steps, outcome |-> R.outcome,
                            reason |-> R.reason, threw |-> R.threw, error |-> R.error,
                            sinksInvoked |-> R.sinksInvoked,
                            applicantData |-> R.applicantData, marked |-> R.marked,
                            markOk |-> env.markOk, idle |-> FALSE,
                            uploads |-> R.drive[messageId] - drive[messageId],
                            count |-> last.count + 1,
                            wasDuplicate |-> R.wasDuplicate,
                            direct |-> R.direct, resume |-> R.resume,
                            answer |-> R.answer, gptCalled |-> R.gptCalled,
                            gptOk |-> env.gpt, gpt |-> R.gpt,
                            resolved |-> R.resolved]
                /\ handled' = handled \cup {messageId}
                /\ passed' = IF R.marked
                              THEN [passed EXCEPT ![messageId] = Marked(@, R.status, env.markOk)]
                              ELSE passed
  /\ UNCHANGED <<mailbox, cfg, pc, batch, rq, pq, boot, gm>>

\* a sink write left running by a rejected Promise.all completes or fails
Settle ==
  /\ pc \in {"loop", "exit"}
  /\ \E w \in inflight, ok \in BOOLEAN :
       /\ ok \/ faults < MaxFaults
       /\ faults' = IF ok THEN faults ELSE faults + 1
       /\ inflight' = inflight \ {w}
       /\ sheet' = IF ok /\ w.sink = "sheet" THEN appendApplicant(sheet, w.data, w.id) ELSE sheet
       /\ db' = IF ok /\ w.sink = "db" THEN createApplicant(db, w.data, w.id) ELSE db
  /\ UNCHANGED <<mailbox, cfg, pc, batch, idx, ledger, drive, stats, last, handled,
                 passed, rq, pq, boot, gm>>

\* the loop is over: generateEnhancedReport, then processEmails returns
LoopEnd ==
  /\ pc = "loop"
  /\ idx > Len(batch)
  /\ pc' = "exit"
  /\ UNCHANGED <<mailbox, cfg, batch, idx, ledger, sheet, db, drive,
                 inflight, stats, last, handled, passed, faults, rq, pq, boot, gm>>

\* process.exit: writes still in flight die with the process, and so does
\* everything the process held in memory
ExitRun ==
  /\ pc = "exit"
  /\ pc' = "idle"
  /\ inflight' = {}
  /\ batch' = <<>>
  /\ idx' = 1
  /\ stats' = NewStats
  /\ last' = NoCall
  /\ UNCHANGED <<mailbox, cfg, ledger, sheet, db, drive, handled, passed, faults, rq, pq, gm>>

\* the next process starts from a completed initialize()
Exit ==
  /\ ExitRun
  /\ UNCHANGED boot

Next == StartRun \/ ProcessNext \/ Settle \/ LoopEnd \/ Exit

Spec == Init /\ [][Next]_vars

\* an iteration of the loop completes: the index moves.  Within Next these
\* are the ProcessNext steps, and Iterate is enabled exactly when ProcessNext
\* is (the call in which every collaborator works is always possible).
Iterate ==
  /\ pc = "loop"
  /\ idx <= Len(batch)
  /\ idx' \in (1..(Len(batch) + 1)) \ {idx}

\* the run loop under the scheduling of the JavaScript event loop: an awaited
\* call settles (every client call has a timeout), so the loop keeps stepping
FairSpec == Spec /\ WF_idx(Iterate) /\ WF_vars(LoopEnd)

\* ----------------------- SupabaseService.isDuplicateApplicant, step by step
Stored(address, projectId, messageId) ==
  ApplicantRow([NoData EXCEPT !.email = ToLowerCase(address), !.name = <<"Ann">>,
                              !.project_id = projectId], messageId)

OtherProj == <<"777">>

\* applicant tables with at most one row per e-mail (the primary key)
SampleTables ==
  { a \cup b :
      a \in {{}, {Stored(AnnMail, Proj, 1)}, {Stored(AnnMail, OtherProj, 1)},
             {Stored(AnnMail, Null, 1)}},
      b \in {{}, {Stored(BobMail, Proj, 2)}} }

SampleEmails == {ToLowerCase(AnnMail), ToLowerCase(BobMail)}

SampleProjects == {Null, <<>>, Proj, OtherProj}

\* .limit(n)
Limit(rows, n) ==
  IF Cardinality(rows) <= n THEN rows
  ELSE CHOOSE few \in SUBSET rows : Cardinality(few) = n

DuplicateLookupLimit == 5

RECURSIVE Pow2(_)
Pow2(n) == IF n = 0 THEN 1 ELSE 2 * Pow2(n - 1)

\* a backoff of one second before every retry
RetryDelayFixed(attempt) == 1000

\* Math.pow(2, attempt - 1) * 1000
RetryDelay(attempt) == Pow2(attempt - 1) * 1000

\* a catch block that lets the lookup error escape
OnLookupErrorRethrow == [result |-> "none", threw |-> TRUE]

\* the catch block of isDuplicateApplicant: log, assume not a duplicate
OnLookupError == [result |-> FALSE, threw |-> FALSE]

InitDup ==
  /\ mailbox = [m \in MsgIds |-> MessageKinds[m]]
  /\ cfg = DefaultConfig
  /\ pc = "idle"
  /\ batch = <<>>
  /\ idx = 1
  /\ ledger = {}
  /\ sheet = <<>>
  /\ db \in SampleTables
  /\ drive = [m \in MsgIds |-> 0]
  /\ inflight = {}
  /\ stats = NewStats
  /\ last = NoCall
  /\ handled = {}
  /\ passed = [m \in MsgIds |-> NoMark]
  /\ faults = 0
  /\ rq = NoRequest
  /\ pq = NoParse
  /\ boot = Booted
  /\ gm = NoFetch

DupFrame ==
  UNCHANGED <<mailbox, cfg, pc, batch, idx, ledger, sheet, db, drive,
              inflight, stats, last, handled, passed, faults, pq, boot, gm>>

\* isDuplicateApplicant(email, projectId) is called: retryOperation starts
DupCall ==
  /\ rq.pc = "idle"
  /\ \E email \in SampleEmails, projectId \in SampleProjects :
       rq' = [NoRequest EXCEPT !.pc = "try", !.email = email,
                               !.projectId = projectId, !.attempt = 1]
  /\ DupFrame

\* the errors a query can fail with: one that may pass (a timeout) and one
\* that will not (permission denied)
QueryErrors == {"timeout", "permission denied"}

\* one attempt of the query inside retryOperation; when the last attempt
\* fails, retryOperation throws its error (raised is the number of that
\* attempt) and the catch block of isDuplicateApplicant takes over
RetryAttempt ==
  /\ rq.pc = "try"
  /\ \E outcome \in {"ok"} \cup QueryErrors :
       LET data == Limit(MatchingApplicants(db, rq.email, rq.projectId),
                         DuplicateLookupLimit)
           ok == outcome = "ok"
           tried == [rq EXCEPT !.calls = @ + 1,
                               !.errors = IF ok THEN @ ELSE Append(@, outcome)]
       IN rq' = IF ok
                THEN [tried EXCEPT !.pc = "done", !.lookupOk = TRUE,
                                   !.data = data, !.result = (data # {})]
                ELSE IF rq.attempt = DefaultMaxRetries
                THEN [tried EXCEPT !.pc = "done", !.raised = rq.attempt,
                                   !.result = OnLookupError.result,
                                   !.threw = OnLookupError.threw]
                ELSE [tried EXCEPT !.pc = "wait"]
  /\ DupFrame

\* the backoff between two attempts
RetryBackoff ==
  /\ rq.pc = "wait"
  /\ rq' = [rq EXCEPT !.pc = "try", !.waited = Append(@, RetryDelay(rq.attempt)),
                      !.attempt = @ + 1]
  /\ DupFrame

\* the caller has the answer
DupReturn ==
  /\ rq.pc = "done"
  /\ rq' = NoRequest
  /\ DupFrame

NextDup == DupCall \/ RetryAttempt \/ RetryBackoff \/ DupReturn

SpecDup == InitDup /\ [][NextDup]_vars

\* ---------------------------------------------------- the parser, called
\* the messages handed to the classifier: those the mail service builds
\* (every field present) and those of the parser's test script (subject,
\* body and htmlBody only)
Subjects ==
  { <<>>, <<"New", "application">>, <<"Application", "for", "membership">>,
    <<"Premium", "upgrade", "now">>, <<"Job", "opening">>, <<"hello">>, Undefined }

Bodies ==
  { <<>>, <<"hello">>, <<"resume", "attached">>, <<"premium", "\n", "offer">>,
    <<"upgrade", "today">>, Undefined }

HtmlBodies == { <<>>, <<"Easy", "Apply">>, Undefined }

Senders ==
  { <<"jobs-noreply@linkedin.com">>, <<"news@linkedin.com">>, <<"hr@corp.io">>,
    Undefined }

AttachmentLists == { <<>>, <<"cv.pdf">>, Undefined }

Mail(subject, body, htmlBody, from, attachments) ==
  [subject |-> subject, body |-> body, htmlBody |-> htmlBody, from |-> from,
   attachments |-> attachments]

InitParser ==
  /\ mailbox = [m \in MsgIds |-> MessageKinds[m]]
  /\ cfg = DefaultConfig
  /\ pc = "idle"
  /\ batch = <<>>
  /\ idx = 1
  /\ ledger = {}
  /\ sheet = <<>>
  /\ db = {}
  /\ drive = [m \in MsgIds |-> 0]
  /\ inflight = {}
  /\ stats = NewStats
  /\ last = NoCall
  /\ handled = {}
  /\ passed = [m \in MsgIds |-> NoMark]
  /\ faults = 0
  /\ rq = NoRequest
  /\ pq = NoParse
  /\ boot = Booted
  /\ gm = NoFetch

ParserFrame ==
  UNCHANGED <<mailbox, cfg, pc, batch, idx, ledger, sheet, db, drive,
              inflight, stats, last, handled, passed, faults, rq, boot, gm>>

Called(op, input, out) == [pc |-> "done", op |-> op, input |-> input, out |-> out]

\* the patterns of a list that the hit tables use: the first two and the last
ProbedPatterns(patterns) == {1, 2, patterns}

IndexOf(sources, source) == CHOOSE i \in 1..Len(sources) : sources[i] = source

Position(sources, hit) ==
  (hit.pattern - 1) * Len(sources) + IndexOf(sources, hit.source)

\* the hit tables with at most n hits, each listed by pattern and source
RECURSIVE HitLists(_, _, _, _)
HitLists(patterns, sources, texts, n) ==
  IF n = 0 THEN {<<>>}
  ELSE LET shorter == HitLists(patterns, sources, texts, n - 1)
           full == {h \in shorter : Len(h) = n - 1}
           hit == {Hit(p, sources[i], t) : p \in ProbedPatterns(patterns),
                                             i \in 1..Len(sources), t \in texts}
       IN shorter \cup
          {Append(x[1], x[2]) :
             x \in {y \in full \X hit :
                      y[1] = <<>> \/ Position(sources, y[1][Len(y[1])])
                                       < Position(sources, y[2])}}

SampleDigits == {"0", "1", "9"}
Wholes == UNION {[1..n -> SampleDigits] : n \in 1..MaxDigits}
Fractions == {<<>>, <<".", "0">>, <<".", "5">>}
\* what ([0-9]+(?:\.[0-9]+)?) captures
Amounts == {w \o f : w \in Wholes, f \in Fractions}
\* what ([0-9]+(?:[,\s][0-9]+)*(?:\.[0-9]+)?) captures besides
Grouped == {<<"1", ",", "0", "0", "0">>, <<"9", " ", "9", "9", ".", "5">>,
            <<"0", ",", "0">>, <<"1", ",", "5", "0">>}
SampleAmounts == {<<"1", "2">>, <<"9", ".", "5">>, <<"1", "0", "0", "0">>}

CompensationHits ==
  {<<Hit(8, "cleanBody", a)>> : a \in Amounts}
    \cup {<<Hit(7, "emailBody", g)>> : g \in Grouped}
    \cup HitLists(CompensationPatterns, CleanedSources, SampleAmounts, MaxHits)

\* parser.extractCompensation(emailBody, htmlBody)
ExtractCompensation ==
  /\ pq.pc = "idle"
  /\ \E hits \in CompensationHits :
       pq' = Called("extractCompensation", hits, Returned(extractCompensation(hits)))
  /\ ParserFrame

\* what the location patterns capture: a city and a country; a headline
\* ahead of them; a headline the tested list knows; two headlines
SampleLocations ==
  { <<"Mumbai", ",", "India">>,
    <<"Marketing", "Manager", ",", "Pune", ",", "India">>,
    <<"Senior", "Developer", ",", "Mumbai", ",", "India">>,
    <<"Brand", "Marketing", ",", "Growth", "Strategy">> }

\* the first three patterns capture three parts, the last one two
Parts(text) == Len(SelectSeq(text, IsComma)) + 1

LocationHits ==
  {hits \in HitLists(LocationPatterns, CleanedSources, SampleLocations, MaxHits) :
     \A k \in 1..Len(hits) :
       Parts(hits[k].text) = IF hits[k].pattern = LocationPatterns THEN 2 ELSE 3}

\* parser.extractLocation(emailBody, htmlBody)
ExtractLocation ==
  /\ pq.pc = "idle"
  /\ \E hits \in LocationHits :
       pq' = Called("extractLocation", hits, Returned(extractLocation(hits)))
  /\ ParserFrame

SampleNames == { <<"Ann">>, <<"Lee">>, <<"Mumbai">> }

NameHits == HitLists(NamePatterns, MessageSources, SampleNames, MaxHits)

\* parser.extractName(subject, emailBody, htmlBody)
ExtractName ==
  /\ pq.pc = "idle"
  /\ \E hits \in NameHits :
       pq' = Called("extractName", hits, Returned(extractName(hits)))
  /\ ParserFrame

SampleTitles == { <<"Data", "Engineer">>, <<"Senior", "Developer", "at">>, <<"hello">> }

TitleHits == HitLists(TitlePatterns, MessageSources, SampleTitles, MaxHits)

\* parser.extractJobTitle(subject, emailBody, htmlBody)
ExtractJobTitle ==
  /\ pq.pc = "idle"
  /\ \E hits \in TitleHits :
       pq' = Called("extractJobTitle", hits, Returned(extractJobTitle(hits)))
  /\ ParserFrame

Repeat(c, n) == [k \in 1..n |-> c]

\* what (\d{6,}) captures: seven digits, six digits, sixteen digits
SampleProjectIds ==
  { <<"4", "2", "4", "2", "4", "2", "4">>, Repeat("7", ProjectIdMin),
    Repeat("9", ProjectIdMax + 1) }

ProjectIdHits ==
  HitLists(ProjectIdPatterns, ProjectIdSources, SampleProjectIds, MaxHits)

\* parser.extractProjectId(emailBody, htmlBody, subject)
ExtractProjectId ==
  /\ pq.pc = "idle"
  /\ \E hits \in ProjectIdHits :
       pq' = Called("extractProjectId", hits, Returned(extractProjectId(hits)))
  /\ ParserFrame

\* answers of sixteen characters, and a heading with a short answer
SampleScreenings ==
  { Repeat("x", ScreeningMin + 1),
    <<"2">> \o Repeat("\n", 2) \o Repeat("y", ScreeningMin),
    <<"S">> \o Tail(ScreeningWord) \o <<":", " ", "-", " ">> \o Repeat("x", ScreeningMin) }

ScreeningHits ==
  HitLists(ScreeningPatterns, CleanedSources, SampleScreenings, MaxHits)

\* parser.extractScreeningQuestions(emailBody, htmlBody)
ExtractScreeningQuestions ==
  /\ pq.pc = "idle"
  /\ \E hits \in ScreeningHits :
       pq' = Called("extractScreeningQuestions", hits,
                    Returned(extractScreeningQuestions(hits)))
  /\ ParserFrame

\* EmailParser.parseLinkedInApplication: message.body.substring and
\* source.match raise when subject or body is missing
EmailParser_parseLinkedInApplication(message) ==
  IF Undefined \in {message.subject, message.body} THEN TypeError
  ELSE Returned([name |-> extractName(message.hits.name),
                 title |-> extractJobTitle(message.hits.title),
                 location |-> extractLocation(message.hits.location),
                 expected_compensation |->
                   extractCompensation(message.hits.expected_compensation),
                 project_id |-> extractProjectId(message.hits.project_id),
                 screening_questions |->
                   extractScreeningQuestions(message.hits.screening_questions)])

\* for one field of a message: nothing matches, or one pattern matches in
\* the body
OneHit(texts) == {<<>>} \cup {<<Hit(1, "emailBody", t)>> : t \in texts}

\* parser.parseLinkedInApplication(message)
Parse ==
  /\ pq.pc = "idle"
  /\ \E from \in {<<"hr@corp.io">>, Undefined},
        name \in OneHit({<<"Ann">>, <<"Mumbai">>}),
        title \in OneHit({<<"Data", "Engineer">>}),
        location \in OneHit({<<"Marketing", "Manager", ",", "Pune", ",", "India">>}),
        compensation \in OneHit({<<"1", "2">>, <<"1", "0", "0", "0">>}),
        projectId \in OneHit({Repeat("7", ProjectIdMin)}),
        screening \in OneHit({Repeat("x", ScreeningMin + 1)}) :
       LET message ==
             [subject |-> <<"New", "application">>, body |-> <<"hello">>,
              htmlBody |-> <<>>, from |-> from,
              attachments |-> IF from = Undefined THEN Undefined ELSE <<>>,
              hits |-> [name |-> name, title |-> title, location |-> location,
                        expected_compensation |-> compensation,
                        project_id |-> projectId,
                        screening_questions |-> screening]]
       IN pq' = Called("parseLinkedInApplication", message,
                       EmailParser_parseLinkedInApplication(message))
  /\ ParserFrame

\* parser.isLinkedInApplication(message)
Classify ==
  /\ pq.pc = "idle"
  /\ \E subject \in Subjects, body \in Bodies, htmlBody \in HtmlBodies,
        from \in Senders, attachments \in AttachmentLists :
       LET message == Mail(subject, body, htmlBody, from, attachments)
       IN pq' = Called("isLinkedInApplication", message,
                       EmailParser_isLinkedInApplication(message))
  /\ ParserFrame

\* the caller has the result
ParserReturn ==
  /\ pq.pc = "done"
  /\ pq' = NoParse
  /\ ParserFrame

NextParser ==
  \/ Classify
  \/ Parse
  \/ ExtractName
  \/ ExtractJobTitle
  \/ ExtractLocation
  \/ ExtractCompensation
  \/ ExtractProjectId
  \/ ExtractScreeningQuestions
  \/ ParserReturn

SpecParser == InitParser /\ [][NextParser]_vars

\* ------------------------------------------------- the direct scan, called
\* the address occurrences a text may hold
ScanOccs ==
  {Occ(kind, addr) : kind \in {"mailto", "plain", "context"},
                     addr \in {AnnMail, BobMail, BotMail}}

OccLists(n) == UNION {[1..k -> ScanOccs] : k \in 0..n}

\* the strings handed to the scan: the empty string, and texts with at most n
\* addresses
ScanTexts(n) == {Text(0, <<>>)} \cup {Text(1 + Len(occs), occs) : occs \in OccLists(n)}

\* this.extractApplicantEmail(message, resumeText) on a message of
\* parseMessage: body and htmlBody are strings, and body is htmlBody when the
\* message has no plain part
ScanMessage ==
  /\ pq.pc = "idle"
  /\ \E body \in ScanTexts(MaxOccs), htmlBody \in ScanTexts(1),
        resumeText \in ScanTexts(1) \cup {NoText} :
       /\ ~TextTruthy(body) => ~TextTruthy(htmlBody)
       /\ pq' = Called("extractApplicantEmail", <<body, htmlBody, resumeText>>,
                       Returned(extractApplicantEmail(
                         [body |-> body, htmlBody |-> htmlBody], resumeText)))
  /\ ParserFrame

NextScan == ScanMessage \/ ParserReturn

SpecScan == InitParser /\ [][NextScan]_vars

\* ------------------------------------------ GmailService.getLatestEmails
\* The repository holds the call in two shapes: one list request followed by
\* one Promise.all over every listed message (paged = FALSE), and a paginated
\* listing followed by sub-batches of detail requests (paged = TRUE).

\* detail requests awaited together by the paginated revision
DetailBatchSize == 50

\* most ids one list request asks for
ListPageMax == 500

\* safety limit on the pages of one call
PageCap == 20

\* CONFIG.BATCH_SIZE: its default on a workstation, its default in the
\* workflow, and an override from the environment above the sub-batch size
LocalBatchSize == 5

ActionsBatchSize == 50

BatchSizes == {LocalBatchSize, ActionsBatchSize, DetailBatchSize + 1}

Least(a, b) == IF a < b THEN a ELSE b

\* ids first, first + 1, ..: the messages entry of one list response
Page(first, n) == [k \in 1..n |-> first + k - 1]

Distinct(s) == \A i, j \in 1..Len(s) : s[i] = s[j] => i = j

\* What messages.list may answer to a request for batchSize ids: no message,
\* one, or as many as asked for; the ids follow those listed so far, or the
\* page opens with the id that closed the previous page (the mailbox shifted
\* between the two requests); a next-page token or none.
ListResponses(g, batchSize) ==
  LET seen == Len(g.allMessages)
      after == IF seen = 0 THEN 1 ELSE g.allMessages[seen] + 1
      firsts == {after} \cup (IF seen > 0 /\ Distinct(g.allMessages) THEN {after - 1} ELSE {})
  IN {[messages |-> Page(first, n), nextPageToken |-> token] :
        first \in firsts, n \in {0, 1, batchSize} \cap (0..batchSize), token \in BOOLEAN}

FetchFrame ==
  UNCHANGED <<mailbox, cfg, pc, batch, idx, ledger, sheet, db, drive,
              inflight, stats, last, handled, passed, faults, rq, pq, boot>>

\* processEmails calls getLatestEmails(CONFIG.BATCH_SIZE)
FetchCall ==
  /\ gm.pc = "idle"
  /\ \E paged \in BOOLEAN, maxResults \in BatchSizes :
       gm' = [NoFetch EXCEPT !.pc = "list", !.paged = paged, !.maxResults = maxResults]
  /\ FetchFrame

\* the listing is over: truncate to maxResults and turn to the details
Listed(g) ==
  [g EXCEPT !.pc = "details",
            !.allMessages = SubSeq(@, 1, Least(Len(@), g.maxResults))]

\* one iteration of the do-while loop of the paginated revision
ListPage ==
  /\ gm.pc = "list"
  /\ gm.paged
  /\ LET batchSize == Least(ListPageMax, gm.maxResults - gm.totalFetched)
     IN \E response \in ListResponses(gm, batchSize) :
          LET asked == [gm EXCEPT !.calls = @ + 1]
              got == [asked EXCEPT !.allMessages = @ \o response.messages,
                                   !.totalFetched = @ + Len(response.messages)]
              turned == [got EXCEPT !.pageToken = response.nextPageToken,
                                    !.pageNumber = @ + 1]
          IN gm' = IF response.messages = <<>> THEN Listed(asked)
                   ELSE IF got.totalFetched >= gm.maxResults THEN Listed(got)
                   ELSE IF turned.pageNumber > PageCap THEN Listed(turned)
                   ELSE IF turned.pageToken THEN turned
                   ELSE Listed(turned)
  /\ FetchFrame

\* the single list request of the unpaginated revision
ListOnce ==
  /\ gm.pc = "list"
  /\ ~gm.paged
  /\ \E response \in ListResponses(gm, gm.maxResults) :
       gm' = IF response.messages = <<>>
             THEN [gm EXCEPT !.calls = @ + 1, !.pc = "returned"]
             ELSE [gm EXCEPT !.calls = @ + 1, !.pc = "details",
                             !.allMessages = response.messages,
                             !.totalFetched = Len(response.messages)]
  /\ FetchFrame

\* the list request, or the authentication before it, rejects: the outer
\* catch rethrows as a Gmail API error
FetchThrow ==
  /\ gm.pc = "list"
  /\ gm' = [gm EXCEPT !.calls = @ + 1, !.pc = "threw"]
  /\ FetchFrame

\* the position after the last request of the sub-batch that starts after hi
BatchEnd(g) ==
  IF g.paged THEN Least(g.hi + DetailBatchSize, Len(g.allMessages))
  ELSE Len(g.allMessages)

\* batch.map(...): every detail request of the sub-batch starts
LaunchBatch ==
  /\ gm.pc = "details"
  /\ gm.hi < Len(gm.allMessages)
  /\ gm' = [gm EXCEPT !.pc = "flight", !.hi = BatchEnd(gm), !.rested = FALSE]
  /\ FetchFrame

\* One detail request settles.  A request that rejects yields null; the
\* model lets the request that opens a sub-batch reject.  When the last one
\* settles, Promise.all resolves and the loop pauses or ends.
SettleDetail ==
  /\ gm.pc = "flight"
  /\ gm.lo < gm.hi
  /\ \E ok \in BOOLEAN :
       /\ ~ok => (gm.lo = 0 \/ (gm.paged /\ gm.lo % DetailBatchSize = 0))
       /\ gm' = [gm EXCEPT
                   !.lo = @ + 1,
                   !.dropped = IF ok THEN @ ELSE @ \cup {gm.lo + 1},
                   !.pc = IF gm.lo + 1 < gm.hi THEN "flight"
                          ELSE IF gm.paged /\ gm.hi < Len(gm.allMessages) THEN "delay"
                          ELSE "details"]
  /\ FetchFrame

\* the pause between two sub-batches
BatchDelay ==
  /\ gm.pc = "delay"
  /\ gm' = [gm EXCEPT !.pc = "details", !.rested = TRUE]
  /\ FetchFrame

\* messages.filter(Boolean)
Fetched(g) ==
  LET kept == {k \in 1..Len(g.allMessages) : k \notin g.dropped}
      At(n) == CHOOSE k \in kept : Cardinality({j \in kept : j < k}) = n - 1
  IN [n \in 1..Cardinality(kept) |-> g.allMessages[At(n)]]

FetchReturn ==
  /\ gm.pc = "details"
  /\ gm.hi = Len(gm.allMessages)
  /\ gm' = [gm EXCEPT !.pc = "returned", !.out = Fetched(gm)]
  /\ FetchFrame

\* the caller takes the result, or the error
FetchDone ==
  /\ gm.pc \in {"returned", "threw"}
  /\ gm' = NoFetch
  /\ FetchFrame

NextFetch ==
  \/ FetchCall \/ ListPage \/ ListOnce \/ FetchThrow
  \/ LaunchBatch \/ SettleDetail \/ BatchDelay \/ FetchReturn \/ FetchDone

SpecFetch == InitParser /\ [][NextFetch]_vars

\* ---------------------------------------------------- main() and initialize()
\* daysToKeep passed by initialize()
RetentionDays == 30

\* the awaited steps of initialize(), the six connection tests in their order
BootSteps ==
  <<"mkdir", "initializeTable", "Supabase", "Storage Manager", "Google Sheets",
    "Google Drive", "Gmail", "OpenAI", "initializeSheet", "cleanupOldRecords">>

ConnectionTests ==
  {"Supabase", "Storage Manager", "Google Sheets", "Google Drive", "Gmail", "OpenAI"}

\* a test table in which every service is critical
CriticalAll(name) == TRUE

\* the critical flag of the test table
Critical(name) == name # "Google Drive"

\* a comparison that also takes the row written exactly at the cutoff
ExpiredInclusive(row, cutoff) == row.processed_at <= cutoff

\* .lt('processed_at', cutoff)
Expired(row, cutoff) == row.processed_at < cutoff

\* one delete statement; its error is logged and the call returns 0
cleanupOldRecords(table, daysToKeep, deleteOk) ==
  IF deleteOk THEN {r \in table : ~Expired(r, Today - daysToKeep)} ELSE table

\* a process that has not run initialize() yet; local = !IS_GITHUB_ACTIONS
NoBoot(local) ==
  [pc |-> "off", step |-> 0, failed |-> {}, criticalFailures |-> 0, local |-> local]

\* ledger rows of earlier runs, for messages the mailbox query no longer
\* returns: one older than the cutoff, one exactly at it, one younger
OldRow(k) ==
  [message_id |-> NumMsgs + k, status |-> "processed",
   processed_at |-> Today - RetentionDays + k - 2, skipReason |-> "", error_details |-> ""]

OldRows == {OldRow(k) : k \in {1, 2, 3}}

InitBoot ==
  /\ mailbox = [m \in 1..NumMsgs |-> MessageKinds[((m + 7) % Len(MessageKinds)) + 1]]
  /\ cfg = DefaultConfig
  /\ pc = "idle"
  /\ batch = <<>>
  /\ idx = 1
  /\ ledger \in {{}, OldRows}
  /\ sheet = <<>>
  /\ db = {}
  /\ drive = [m \in MsgIds |-> 0]
  /\ inflight = {}
  /\ stats = NewStats
  /\ last = NoCall
  /\ handled = {}
  /\ passed = [m \in MsgIds |-> NoMark]
  /\ faults = 0
  /\ rq = NoRequest
  /\ pq = NoParse
  /\ boot \in {NoBoot(local) : local \in BOOLEAN}
  /\ gm = NoFetch

BootFrame ==
  UNCHANGED <<mailbox, cfg, pc, batch, idx, sheet, db, drive,
              inflight, stats, last, handled, passed, rq, pq, gm>>

\* main(): processor.initialize() is called
Launch ==
  /\ boot.pc = "off"
  /\ boot' = [boot EXCEPT !.pc = "init", !.step = 1]
  /\ UNCHANGED <<ledger, faults>>
  /\ BootFrame

\* The state of initialize() after the step called name succeeded or threw.
\* A connection test that throws is counted and the tests go on; after the
\* last test, testConnections throws when a critical one failed.  Any other
\* step that throws ends initialize(), except the sweep, which never throws.
Advance(b, name, ok) ==
  LET noted == IF ok THEN b
               ELSE [b EXCEPT !.failed = @ \cup {name},
                              !.criticalFailures =
                                 IF name \in ConnectionTests /\ Critical(name) THEN @ + 1 ELSE @]
  IN IF ~ok /\ name \notin ConnectionTests /\ name # "cleanupOldRecords"
     THEN [noted EXCEPT !.pc = "aborted"]
     ELSE IF name = "OpenAI" /\ noted.criticalFailures > 0
     THEN [noted EXCEPT !.pc = "aborted"]
     ELSE IF b.step = Len(BootSteps)
     THEN [noted EXCEPT !.pc = "ready"]
     ELSE [noted EXCEPT !.step = @ + 1]

\* one awaited step of initialize(); the sweep is skipped in the workflow
BootStep ==
  /\ boot.pc = "init"
  /\ LET name == BootSteps[boot.step]
         sweeps == name = "cleanupOldRecords" /\ boot.local
         skipped == name = "cleanupOldRecords" /\ ~boot.local
     IN \E ok \in BOOLEAN :
          /\ ~ok => ~skipped /\ faults < MaxFaults
          /\ faults' = IF ok THEN faults ELSE faults + 1
          /\ ledger' = IF sweeps THEN cleanupOldRecords(ledger, RetentionDays, ok) ELSE ledger
          /\ boot' = Advance(boot, name, ok)
  /\ BootFrame

\* initialize() returned: processor.processEmails() opens with the fetch
BootRun ==
  /\ boot.pc = "ready"
  /\ StartRun

\* process.exit(0) after the run
BootExit ==
  /\ ExitRun
  /\ boot' = NoBoot(boot.local)

\* initialize() threw: the catch of main() logs and calls process.exit(1)
BootAbort ==
  /\ boot.pc = "aborted"
  /\ boot' = NoBoot(boot.local)
  /\ UNCHANGED <<ledger, faults>>
  /\ BootFrame

NextBoot ==
  \/ Launch \/ BootStep \/ BootRun \/ ProcessNext \/ Settle \/ LoopEnd
  \/ BootExit \/ BootAbort

SpecBoot == InitBoot /\ [][NextBoot]_vars

\* ================================================================ claims
Rows(m) == {r \in ledger : r.message_id = m}

InSheet(m) == \E k \in 1..Len(sheet) : sheet[k].message_id = m

InDb(m) == \E r \in db : r.message_id = m

TooOld(m) == mailbox[m].ageDays > MAX_EMAIL_AGE_DAYS

NotApplication(m) == ~isLinkedInApplication(mailbox[m])

\* C1 (idempotence across runs): a processMessage call on a message that was
\* processed before is a no-op: the dedup check answers "already processed",
\* and the call uploads nothing, invokes no sink and writes no ledger row.
C1_Original ==
  (~last.idle /\ last.prior = 1) =>
     /\ last.outcome = "already"
     /\ ~last.marked
     /\ ~last.sinksInvoked
     /\ last.uploads = 0

C3_BatchContinuity ==
  /\ [](pc = "exit" => last.count = Len(batch))
  /\ (pc = "loop") ~> (pc = "exit")

\* a call threw and a later message of the same batch still got its outcome
C3_Witness ==
  /\ pc = "exit"
  /\ stats.emailsErrored > 0
  /\ ~last.threw
  /\ last.count = Len(batch)
  /\ last.outcome # ""

\* C4 (failure recording): when processMessage throws, the ledger row of the
\* message ends with status "error" and carries the error message.
C4_Original ==
  (~last.idle /\ last.threw) =>
     \E r \in Rows(last.id) : r.status = "error" /\ r.error_details = last.error

\* C5 (atomicity of persistence): for a processed message either both sinks
\* hold its row and the ledger says "success", or neither sink holds a row;
\* and no spreadsheet row belongs to a message whose ledger status is "error".
C5_Original ==
  \A m \in handled :
    (pc \in {"idle", "exit"} /\ inflight = {}) =>
      /\ \/ InSheet(m) /\ InDb(m) /\ (\E r \in Rows(m) : r.status = "success")
         \/ ~InSheet(m) /\ ~InDb(m)
      /\ ~(InSheet(m) /\ \E r \in Rows(m) : r.status = "error")

\* C6 (persistence eligibility): whenever the sinks are invoked the applicant
\* record has a non-null, non-empty name and a non-null, non-empty e-mail;
\* so has every row that reached a sink or is on its way to one.
C6_Eligibility ==
  /\ last.sinksInvoked =>
       Truthy(last.applicantData.name) /\ Truthy(last.applicantData.email)
  /\ \A k \in 1..Len(sheet) : Truthy(sheet[k].name) /\ Truthy(sheet[k].email)
  /\ \A r \in db : Truthy(r.name) /\ Truthy(r.email)
  /\ \A w \in inflight : Truthy(w.data.name) /\ Truthy(w.data.email)

\* the sinks were invoked for a message whose parsed name needed trimming
C6_Witness ==
  /\ last.sinksInvoked
  /\ mailbox[last.id].name # last.applicantData.name
  /\ Truthy(last.applicantData.email)

AttachmentSteps ==
  {"canProcessFile", "downloadAttachment", "uploadFile", "convertFileToText"}

\* position of a step in the pipeline, given the places of the two checks
Rank(step, classify, age) ==
  CASE step = "isProcessed" -> 1
    [] step = "isLinkedInApplication" -> classify
    [] step = "emailAge" -> age
    [] step = "parseLinkedInApplication" -> 4
    [] step \in AttachmentSteps -> 5
    [] step = "extractApplicantEmail" -> 6
    [] step = "extractContactInfo" -> 7
    [] step \in {"appendApplicant", "createApplicant"} -> 8
    [] step = "markProcessed" -> 9

InOrder(steps, classify, age) ==
  \A i, j \in 1..Len(steps) :
    i < j => Rank(steps[i], classify, age) <= Rank(steps[j], classify, age)

Ran(step) == \E i \in 1..Len(last.steps) : last.steps[i] = step

\* C7 as stated (step order): the steps run in the order dedup check, age
\* check, classification, extraction, persistence; a message rejected at a
\* step has no later step run (one rejected for its age is not classified);
\* a message both too old and not an application is skipped for its age.
C7_Original ==
  (~last.idle) =>
     /\ InOrder(last.steps, 3, 2)
     /\ (last.outcome # "already" /\ TooOld(last.id)) =>
           /\ ~Ran("isLinkedInApplication")
           /\ last.outcome = "skipped" /\ last.reason = "Too old"

\* C7 amended: the steps run in the order dedup check, classification, age
\* check, parsing, attachments, e-mail extraction, LLM extraction, sinks,
\* ledger write.  An already processed message stops after the dedup check.
\* Otherwise classification and age check are both evaluated, and a message
\* that fails either is skipped with nothing run after them but the ledger
\* write, the reason being "Too old" whenever it is too old (also when it is
\* not an application) and "Not LinkedIn application" otherwise.  A message
\* rejected for its name or its missing e-mail has no later step run either.
C7_Amended ==
  (~last.idle) =>
     /\ InOrder(last.steps, 2, 3)
     /\ (last.outcome = "already") => last.steps = <<"isProcessed">>
     /\ (last.outcome # "already") =>
          /\ Len(last.steps) >= 4
          /\ SubSeq(last.steps, 1, 3) = <<"isProcessed", "isLinkedInApplication", "emailAge">>
          /\ last.steps[Len(last.steps)] = "markProcessed"
     /\ (last.outcome # "already" /\ (TooOld(last.id) \/ NotApplication(last.id))) =>
          /\ Len(last.steps) = 4
          /\ last.outcome = "skipped"
          /\ last.reason = IF TooOld(last.id) THEN "Too old" ELSE "Not LinkedIn application"
          /\ last.uploads = 0 /\ ~last.sinksInvoked
     /\ (last.reason = "No applicant name found") =>
          /\ Len(last.steps) = 5
          /\ last.uploads = 0 /\ ~last.sinksInvoked
     /\ (last.reason = "No email found") =>
          /\ ~Ran("extractContactInfo")
          /\ ~last.sinksInvoked

\* a message both too old and not an application was skipped for its age
C7_Witness ==
  /\ ~last.idle
  /\ last.outcome = "skipped"
  /\ TooOld(last.id) /\ NotApplication(last.id)
  /\ last.reason = "Too old"

\* C8 as stated (candidate duplicate guard): a message that reaches
\* persistence while the applicant table already holds a row with its e-mail
\* and project is recorded as "duplicate" and writes to no sink.
C8_Original ==
  (~last.idle /\ last.wasDuplicate) =>
     /\ last.outcome = "duplicate"
     /\ ~last.sinksInvoked

\* C8 amended: processMessage makes no candidate-level duplicate check: no
\* message is ever recorded as "duplicate" and duplicatesFound stays 0; a
\* message that reaches persistence while the applicant table already holds
\* a row with its e-mail and project is written to the sinks like any other
\* (unless DRY_RUN) and ends as "success" or, when a write fails, "error".
C8_Amended ==
  /\ \A r \in ledger : r.status # "duplicate"
  /\ stats.duplicatesFound = 0
  /\ (~last.idle /\ last.wasDuplicate) =>
        /\ last.outcome \in {"success", "error"}
        /\ last.sinksInvoked = WritesToSinks(cfg)

\* a second message of a candidate already in the table was persisted
C8_Witness ==
  /\ ~last.idle
  /\ last.wasDuplicate
  /\ last.outcome = "success"
  /\ \E r \in db : r.email = last.applicantData.email /\ r.message_id = last.id
  /\ \E k \in 1..Len(sheet) :
        sheet[k].email = last.applicantData.email /\ sheet[k].message_id # last.id

\* C9 (duplicate-guard failure policy): a finished isDuplicateApplicant call
\* has not thrown; it answers true only after a lookup that succeeded and
\* found a matching row; when the lookup failed on every attempt (all
\* DefaultMaxRetries of them) it answers false.
C9_FailurePolicy ==
  (rq.pc = "done") =>
     /\ ~rq.threw
     /\ rq.result \in BOOLEAN
     /\ (rq.result = TRUE) =>
           rq.lookupOk /\ MatchingApplicants(db, rq.email, rq.projectId) # {}
     /\ (~rq.lookupOk) => (rq.result = FALSE /\ rq.calls = DefaultMaxRetries)

\* the lookup failed on every attempt and the answer is false
C9_Witness ==
  /\ rq.pc = "done"
  /\ ~rq.lookupOk
  /\ rq.calls = DefaultMaxRetries
  /\ rq.result = FALSE
  /\ MatchingApplicants(db, rq.email, rq.projectId) # {}

\* C10 (dry run): with DRY_RUN set nothing is written: no spreadsheet row, no
\* applicant row, no ledger row and no Drive file.
C10_Original ==
  cfg.DRY_RUN =>
     /\ sheet = <<>>
     /\ db = {}
     /\ inflight = {}
     /\ ledger = {}
     /\ \A m \in MsgIds : drive[m] = 0

\* C11 (ledger status values): in every reachable state each ledger row has a
\* status among success, duplicate, skipped and error, and every status the
\* orchestrator has handed to markProcessed is one of these four.
C11_StatusValues ==
  /\ \A r \in ledger : r.status \in {"success", "duplicate", "skipped", "error"}
  /\ \A m \in MsgIds :
       passed[m].status # "" =>
         passed[m].status \in {"success", "duplicate", "skipped", "error"}

\* the ledger holds a row written for a skip next to one written for an
\* error or a success
C11_Witness ==
  \E r1, r2 \in ledger :
    /\ r1.status = "skipped"
    /\ r2.status \in {"error", "success"}
    /\ r1.message_id # r2.message_id
    /\ last.marked /\ passed[last.id].status = "skipped"

\* C16 (e-mail precedence): when the language model returns a non-null e-mail
\* it is the resolved e-mail, otherwise the address of the direct scan is;
\* mobile number and profile link come only from the language model; the
\* record handed to the sinks carries the resolved contact.
C16_EmailPrecedence ==
  (~last.idle /\ last.outcome \in {"success", "error"} /\ Ran("extractApplicantEmail")) =>
    /\ last.resolved.email =
         IF last.gptCalled /\ Truthy(last.gpt.email) THEN last.gpt.email
         ELSE last.direct
    /\ last.resolved.mobile_number =
         IF last.gptCalled THEN OrElse(last.gpt.mobile_number, Null) ELSE Null
    /\ last.resolved.linkedin_url =
         IF last.gptCalled THEN OrElse(last.gpt.linkedin_url, Null) ELSE Null
    /\ last.sinksInvoked =>
         /\ last.applicantData.email = last.resolved.email
         /\ last.applicantData.mobile_number = last.resolved.mobile_number
         /\ last.applicantData.linkedin_url = last.resolved.linkedin_url

\* the language model returned an address other than the one the direct scan
\* found, and the record went to the sinks
C16_Witness ==
  /\ last.gptCalled /\ Truthy(last.gpt.email) /\ Truthy(last.direct)
  /\ last.gpt.email # last.direct
  /\ last.sinksInvoked /\ last.outcome = "success"
  /\ last.applicantData.email = last.gpt.email

\* C17 (language model failure): a failed call or an unparsable reply makes
\* extractContactInfo return all nulls without raising; the message is not
\* marked error on that account and goes on with the address of the direct
\* scan.
C17_LlmFailure ==
  (~last.idle /\ last.gptCalled /\ ~last.gptOk) =>
    /\ last.gpt = NoContact
    /\ last.resolved = [mobile_number |-> Null, email |-> last.direct,
                        linkedin_url |-> Null]
    /\ last.outcome \in {"success", "error"}
    /\ last.sinksInvoked = WritesToSinks(cfg)
    /\ last.outcome = "error" =>
         last.error \in {"Sheet append failed", "Supabase create applicant failed"}

\* the call to the language model failed for a message whose resume had
\* contact details, and the message was persisted as a success
C17_Witness ==
  /\ last.gptCalled /\ ~last.gptOk
  /\ Truthy(last.answer.email)
  /\ last.outcome = "success" /\ last.sinksInvoked
  /\ last.applicantData.email = last.direct

\* C18 as stated (missing-email skip comes after contact resolution): a
\* message for which the direct scan finds no address while the language
\* model would return one from the resume text is not skipped for a missing
\* e-mail but resolved with the address of the language model.
C18_Original ==
  (/\ ~last.idle /\ Ran("extractApplicantEmail")
   /\ ~Truthy(last.direct)
   /\ cfg.ENABLE_GPT /\ last.resume /\ Truthy(last.answer.email)) =>
    /\ last.reason # "No email found"
    /\ last.gptCalled
    /\ last.resolved.email = last.answer.email

\* the message of a classifier call that returned, and its joined text
Classified ==
  /\ pq.pc = "done" /\ pq.op = "isLinkedInApplication" /\ ~pq.out.threw

Joined ==
  LET m == pq.input
  IN combinedText(ToLowerCase(m.subject), ToLowerCase(m.body),
                  ToLowerCase(IF m.htmlBody = Undefined THEN <<>> ELSE m.htmlBody),
                  ToLowerCase(m.from))

\* C12 (sender allowlist): a message whose sender is on the allowlist of job
\* notification addresses is classified as an application whatever its
\* subject, body, HTML body and attachments hold, content of the exclusion
\* list included.
C12_Allowlist ==
  (/\ pq.pc = "done" /\ pq.op = "isLinkedInApplication"
   /\ Undefined \notin {pq.input.subject, pq.input.body, pq.input.from}
   /\ isFromLinkedInJobs(ToLowerCase(pq.input.from))) =>
    pq.out = Returned("true")

\* a message from an allowlisted sender whose text matches the exclusion list
\* was classified
C12_Witness ==
  /\ Classified
  /\ isFromLinkedInJobs(ToLowerCase(pq.input.from))
  /\ Some(excludePatterns, Joined)
  /\ pq.out.value = "true"

\* C13 as stated (the parser never raises): every classifier call returns a
\* boolean, also for a message that has only subject, body and htmlBody.
C13_Original ==
  /\ (pq.pc = "done" /\ pq.op = "isLinkedInApplication"
      /\ Undefined \notin {pq.input.subject, pq.input.body}) =>
       /\ ~pq.out.threw
       /\ pq.out.value \in {"true", "false"}
  /\ (pq.pc = "done" /\ pq.op = "parseLinkedInApplication") =>
       /\ ~pq.out.threw
       /\ DOMAIN pq.out.value =
            {"name", "title", "location", "expected_compensation", "project_id",
             "screening_questions"}
       /\ \A field \in DOMAIN pq.out.value :
            pq.out.value[field] = Null \/ pq.out.value[field] # <<>>

\* C19 as stated (fall-through policy): a message matching neither the sender
\* allowlist nor the strong subject pattern is rejected when its text matches
\* an exclusion pattern, and is otherwise accepted exactly when a brand
\* pattern matches, or a job keyword and an application keyword are present,
\* or it has attachments and a job keyword is present.
C19_Original ==
  (/\ Classified
   /\ ~isFromLinkedInJobs(ToLowerCase(pq.input.from))
   /\ ~hasApplicationSubject(ToLowerCase(pq.input.subject))) =>
    IF Some(excludePatterns, Joined) THEN pq.out.value = "false"
    ELSE (pq.out.value = "true") <=>
           \/ Some(linkedInPatterns, Joined)
           \/ hasJobKeywords(Joined) /\ hasApplicationKeywords(Joined)
           \/ hasAttachments(pq.input) = "true" /\ hasJobKeywords(Joined)

\* C19 amended: the subject test for application wording is a fourth way in
C19_Amended ==
  (/\ Classified
   /\ ~isFromLinkedInJobs(ToLowerCase(pq.input.from))
   /\ ~hasApplicationSubject(ToLowerCase(pq.input.subject))) =>
    IF Some(excludePatterns, Joined) THEN pq.out.value = "false"
    ELSE (pq.out.value = "true") <=>
           \/ Some(linkedInPatterns, Joined)
           \/ hasJobKeywords(Joined) /\ hasApplicationKeywords(Joined)
           \/ subjectIntent(ToLowerCase(pq.input.subject))
           \/ hasAttachments(pq.input) = "true" /\ hasJobKeywords(Joined)

\* a message was accepted on the wording of its subject alone
C19_Witness ==
  /\ Classified
  /\ ~isFromLinkedInJobs(ToLowerCase(pq.input.from))
  /\ ~hasApplicationSubject(ToLowerCase(pq.input.subject))
  /\ ~Some(excludePatterns, Joined)
  /\ ~Some(linkedInPatterns, Joined)
  /\ ~hasJobKeywords(Joined)
  /\ subjectIntent(ToLowerCase(pq.input.subject))
  /\ pq.out.value = "true"

\* a decimal numeral: digits with at most one point among them
Numeral(text) ==
  /\ text # <<>>
  /\ \A k \in 1..Len(text) : IsDigit(text[k]) \/ text[k] = "."
  /\ \A i, j \in 1..Len(text) : (text[i] = "." /\ text[j] = ".") => i = j

\* C14 (compensation bounds): extractCompensation returns null or a numeric
\* string whose value v satisfies 0 < v < 1000; an amount that is zero or at
\* least 1000 is never returned.
C14_CompensationBounds ==
  (pq.pc = "done" /\ pq.op = "extractCompensation") =>
    /\ ~pq.out.threw
    /\ pq.out.value # Null =>
         /\ Numeral(pq.out.value)
         /\ Head(pq.out.value) # "."
         /\ LET whole == Number(DigitPrefix(pq.out.value))
            IN /\ whole < 1000
               /\ whole > 0 \/ \E k \in 1..Len(pq.out.value) :
                                  IsDigit(pq.out.value[k]) /\ pq.out.value[k] # "0"
    /\ \A k \in 1..Len(pq.input) :
         pq.input[k].text \in {<<"0">>, <<"0", ".", "0">>, <<"1", "0", "0", "0">>,
                               <<"1", ",", "0", "0", "0">>} =>
           pq.out.value # pq.input[k].text

\* an amount of 1000 was matched ahead of an amount in range, and the amount
\* in range was returned
C14_Witness ==
  /\ pq.pc = "done" /\ pq.op = "extractCompensation"
  /\ Len(pq.input) = 2
  /\ pq.input[1].text = <<"1", "0", "0", "0">>
  /\ pq.input[1].source = "cleanBody"
  /\ pq.input[2].text = <<"9", ".", "5">>
  /\ pq.out.value = <<"9", ".", "5">>

\* a candidate holds a word of the job, skill and technology vocabulary
HoldsVocabulary(text) ==
  \E k \in 1..Len(text) :
    LowerAtom(text[k]) \in RemovedTerms \cup RemovedNames \cup JobTerms

\* C15 as stated (job terms in a location): a location candidate that holds
\* a job, skill or technology term is never accepted, so that a call whose
\* candidates all hold such a term returns no location.
C15_Original ==
  (/\ pq.pc = "done" /\ pq.op = "extractLocation"
   /\ \A k \in 1..Len(pq.input) : HoldsVocabulary(pq.input[k].text)) =>
    pq.out.value = Null

FieldOps ==
  {"extractName", "extractJobTitle", "extractLocation", "extractCompensation",
   "extractProjectId", "extractScreeningQuestions"}

\* the value a field's extractor makes of a capture, and its validator
Made(op, text) ==
  CASE op = "extractName" -> Trim(text)
    [] op = "extractJobTitle" -> cleanJobTitle(Trim(text))
    [] op = "extractLocation" -> cleanLocation(Trim(text))
    [] op = "extractCompensation" -> cleanCompensation(text)
    [] op = "extractProjectId" -> text
    [] op = "extractScreeningQuestions" -> cleanScreeningQuestions(text)

Passes(op, value) ==
  CASE op = "extractName" -> isValidName(value)
    [] op = "extractJobTitle" -> isValidJobTitle(value)
    [] op = "extractLocation" -> isValidLocation(value)
    [] op = "extractCompensation" -> value # Null /\ Positive(parseFloat(value))
    [] op = "extractProjectId" ->
         Len(value) >= ProjectIdMin /\ Len(value) <= ProjectIdMax
    [] op = "extractScreeningQuestions" -> Len(value) > ScreeningMin

\* the hits of the call in progress whose value passes the validator
Passing ==
  {k \in 1..Len(pq.input) :
     pq.input[k].text # <<>> /\ Passes(pq.op, Made(pq.op, pq.input[k].text))}

\* subject, plain body, HTML body: the priority of a source
Priority(source) ==
  CASE source = "subject" -> 1
    [] source \in {"emailBody", "cleanBody"} -> 2
    [] source \in {"htmlBody", "cleanHtml"} -> 3

SourcesOf(op) ==
  CASE op \in {"extractName", "extractJobTitle"} -> MessageSources
    [] op = "extractProjectId" -> ProjectIdSources
    [] OTHER -> CleanedSources

PatternFirst(op) == op \in {"extractName", "extractJobTitle"}

Earlier(op, a, b) ==
  LET i == IndexOf(SourcesOf(op), a.source)
      j == IndexOf(SourcesOf(op), b.source)
  IN IF PatternFirst(op)
     THEN a.pattern < b.pattern \/ (a.pattern = b.pattern /\ i < j)
     ELSE i < j \/ (i = j /\ a.pattern < b.pattern)

MailtoAddresses ==
  {Trim(ToLowerCase(pq.input[s].occs[k].addr)) :
     <<s, k>> \in {x \in (1..3) \X (1..(MaxOccs + 1)) :
                     /\ TextTruthy(pq.input[x[1]])
                     /\ x[2] <= Len(pq.input[x[1]].occs)
                     /\ pq.input[x[1]].occs[x[2]].kind = "mailto"
                     /\ isValidEmail(pq.input[x[1]].occs[x[2]].addr)}}

\* C21 as stated (mailto precedence in the direct scan): if the body, the
\* HTML body or the resume text holds a valid address inside a mailto: link,
\* the direct scan returns the address of a mailto: link, whatever plain or
\* contextual matches the sources hold.
C21_Original ==
  (pq.pc = "done" /\ pq.op = "extractApplicantEmail" /\ MailtoAddresses # {}) =>
    pq.out.value \in MailtoAddresses

C23_Original ==
  \A k \in 1..Len(rq.errors) :
    rq.errors[k] = "permission denied" =>
      /\ rq.pc = "done"
      /\ rq.calls = k
      /\ rq.raised = k
      /\ Len(rq.waited) = k - 1

\* C25 as stated (sequential processing): a processMessage call starts only
\* when every step of the message before it has finished, its sink writes
\* included: no write of an earlier message is still in flight.
C25_Original == [][(last'.count = last.count + 1) => inflight = {}]_vars

\* C28 as stated (conservation of the run statistics): at the end of a run
\* the counters of processed, skipped, duplicate and failed messages add up to
\* emailsFound, and the errors list holds one entry per failed message, which
\* emailsErrored counts once.
C28_Original ==
  (pc = "exit") =>
    /\ stats.emailsProcessed + stats.emailsSkipped + stats.duplicatesFound
         + stats.emailsErrored = stats.emailsFound
    /\ \A m \in MsgIds :
         Cardinality({k \in 1..Len(stats.errors) : stats.errors[k] = m}) <= 1
    /\ stats.emailsErrored =
         Cardinality({stats.errors[k] : k \in 1..Len(stats.errors)})

\* C29 as stated (validated e-mails only): every e-mail in a row of the
\* spreadsheet or of the applicant table passes the applicant-email
\* validator, whether the direct scan or the language model supplied it.
C29_Original ==
  /\ \A k \in 1..Len(sheet) : isValidEmail(sheet[k].email)
  /\ \A r \in db : isValidEmail(r.email)

\* C26: while getLatestEmails fetches message details, at most 50 detail
\* requests are in flight at any time, a sub-batch starts only after the
\* previous sub-batch has fully settled, and a delay separates consecutive
\* sub-batches.
C26_Original ==
  [][/\ gm'.hi - gm'.lo <= DetailBatchSize
     /\ gm'.hi > gm.hi => /\ gm.lo = gm.hi
                          /\ gm.hi > 0 => gm.rested]_vars

\* C30: for any sequence of list responses and page tokens, getLatestEmails
\* stops listing when no next page token is returned, when maxResults ids
\* have been collected, or when the page cap is reached, and it returns at
\* most maxResults messages with no message id appearing twice.
C30_Original ==
  /\ (gm.pc = "list" /\ gm.calls > 0) =>
       gm.pageToken /\ gm.totalFetched < gm.maxResults /\ gm.pageNumber <= PageCap
  /\ gm.calls <= PageCap
  /\ gm.pc = "returned" => Len(gm.out) <= gm.maxResults /\ Distinct(gm.out)

\* the start-up steps the claim counts as connectivity checks of critical
\* services: Supabase, ledger storage (both initializeTable calls), Sheets,
\* Gmail, OpenAI
CriticalChecks ==
  {"Supabase", "initializeTable", "Storage Manager", "Google Sheets", "Gmail", "OpenAI"}

\* C24 (as stated): initialization aborts the run, so that no message is
\* fetched or processed, if and only if the connectivity check of at least one
\* critical service fails; a failure of the Drive check alone never aborts.
C24_Original ==
  /\ boot.pc \in {"ready", "aborted"} =>
       (boot.pc = "aborted" <=> boot.failed \cap CriticalChecks # {})
  /\ boot.pc = "aborted" => pc = "idle" /\ batch = <<>>
  /\ boot.failed = {"Google Drive"} => boot.pc # "aborted"

\* C24 (amended): initialization aborts the run, so that no message is fetched
\* or processed, if and only if a critical connectivity check, the creation of
\* the logs directory or the initialization of the sheet fails; a failure of
\* the Drive check or of the retention sweep never aborts the run, and nothing
\* is fetched before initialization has completed.
C24_StartupAbort ==
  /\ boot.pc \in {"ready", "aborted"} =>
       (boot.pc = "aborted" <=>
          boot.failed \cap (CriticalChecks \cup {"mkdir", "initializeSheet"}) # {})
  /\ boot.pc # "ready" => pc = "idle" /\ batch = <<>>
  /\ boot.failed \subseteq {"Google Drive", "cleanupOldRecords"} => boot.pc # "aborted"

\* the Drive check failed, initialization completed, and the run is
\* processing the messages it fetched
C24_Witness ==
  /\ boot.pc = "ready"
  /\ "Google Drive" \in boot.failed
  /\ pc = "loop"
  /\ batch # <<>>

\* C27: a ledger entry is removed only by cleanupOldRecords; a sweep whose
\* delete succeeds removes exactly the entries whose processed_at is older
\* than the cutoff (30 days) and leaves every other entry unchanged, a sweep
\* whose delete fails removes nothing; no other step of a run deletes a
\* ledger entry.
C27_Retention ==
  [][LET sweep == /\ boot.pc = "init"
                  /\ BootSteps[boot.step] = "cleanupOldRecords"
                  /\ boot.local
         kept == {r \in ledger : r.processed_at >= Today - RetentionDays}
     IN /\ ~sweep => {r.message_id : r \in ledger} \subseteq {r.message_id : r \in ledger'}
        /\ sweep => ledger' = IF faults' = faults THEN kept ELSE ledger]_vars

\* after a sweep and a run: the row older than the cutoff is gone, the row
\* exactly at the cutoff and the younger one remain, next to rows of the run
C27_Witness ==
  /\ boot.local
  /\ pc = "exit"
  /\ "cleanupOldRecords" \notin boot.failed
  /\ ledger \cap OldRows = {OldRow(2), OldRow(3)}
  /\ \E r \in ledger : r.message_id \in MsgIds

====
